---- MODULE Spec2Model ----
(***************************************************************************)
(* The context / query lifecycle of swipl-rs (src/swipl/src/callable.rs)   *)
(* as a state machine.                                                     *)
(*                                                                         *)
(* One thread drives one Prolog engine.  The Rust side is the tree of live *)
(* Context values (`ctxs`); the engine side (`engine`) is what the foreign *)
(* calls PL_* act on.  Every action is one call of the API made by the     *)
(* code that uses the crate, including the destructors that run when the   *)
(* call consumes its context or unwinds from a panic.                      *)
(*                                                                         *)
(* What Context does (context.rs: assert_activated, deactivate, the        *)
(* reactivation of the parent when a child is destroyed, frames) is        *)
(* modelled from spec.md sections 3 and 4.                                 *)
(* The engine itself (SWI-Prolog behind the fli bindings) is modelled from *)
(* the interface of spec.md section 6.                                     *)
(***************************************************************************)
EXTENDS Integers, Sequences, FiniteSets, TLC

\* Bounds of the model.
MaxQueries == 3     \* queries opened in one run (query ids are never reused)
MaxDepth == 3       \* live contexts nested at one time
MaxArity == 2       \* arity N of the predicates that are called

VARIABLES
    ctxs,        \* the live Context values, oldest first
    engine,      \* the engine: queries, pending exception, open frames,
                 \* term stack, and the foreign calls issued by the last
                 \* operation
    ret,         \* what the last operation was and what it returned
    panicking,   \* the thread is unwinding from a panic
    unconsumed,  \* qid of the last query whose exception was surfaced and
                 \* has not been consumed since (0: none)
    activation,  \* which engine is active on which thread
    lazy,        \* a LazyCallablePredicate and the threads that call it
    call         \* the last call of a function that acts on its arguments
                 \* only: the arguments and what it returned

vars == <<ctxs, engine, ret, panicking, unconsumed, activation, lazy, call>>

\* The result codes PL_next_solution may hand back: the four of the
\* protocol and two outside it.
Codes == {-2, -1, 0, 1, 2, 3}

----------------------------------------------------------------------------
(* The engine: spec.md section 6, "query control" and "exception channel". *)

Called(e, name, arg) == [e EXCEPT !.trace = Append(@, <<name, arg>>)]

\* The term stack is the sequence e.terms: one entry per term reference,
\* 0 for an unbound term and otherwise the value it is bound to.  A
\* marker (of a query, of a frame) is the term stack as it was when the
\* marker was made; going back to a marker undoes the bindings and the
\* allocations made since.

\* A query: its state, the closing calls it got, its exception term, its
\* marker, and whether its last solve step bound a term.
NewQuery ==
    [state |-> "open", cuts |-> 0, closes |-> 0, exc |-> 0, mark |-> <<>>,
     bound |-> FALSE]

PL_new_term_refs(e, n) == Called(e, "PL_new_term_refs", n)

\* One term reference that outlives the call: a fresh unbound term.
PL_new_term_ref(e) ==
    Called([e EXCEPT !.terms = Append(@, 0)], "PL_new_term_ref", Len(e.terms) + 1)

PL_unify(e, slot) == Called(e, "PL_unify", slot)

\* Unification of the term t with the integer v succeeds when t is
\* unbound, which binds it, and when t is bound to v already.
UnifyOk(e, t, v) == e.terms[t] \in {0, v}

PL_unify_uint64(e, t, v) ==
    Called([e EXCEPT !.terms[t] = IF @ = 0 THEN v ELSE @], "PL_unify_uint64", t)

PL_open_query(e) ==
    Called([e EXCEPT !.q = Append(@, [NewQuery EXCEPT !.mark = e.terms])],
           "PL_open_query", Len(e.q) + 1)

\* The bindings b laid over the term stack m: only unbound terms are bound.
Overlay(m, b) ==
    [k \in 1..Len(m) |-> IF m[k] = 0 /\ k \in DOMAIN b THEN b[k] ELSE m[k]]

\* A solve step backtracks to the query's marker; a step that finds a
\* solution (1, 2) then makes that solution's bindings, e.sol.  A step
\* that ends in an exception leaves the exception term with the query
\* (the query was opened with PL_Q_CATCH_EXCEPTION).  The term handle of
\* query qid is written qid: any value other than 0.
PL_next_solution(e, qid, code) ==
    Called([e EXCEPT !.q[qid].exc = IF code = -1 THEN qid ELSE 0,
                     !.terms = IF code \in {1, 2}
                               THEN Overlay(e.q[qid].mark, e.sol)
                               ELSE e.q[qid].mark,
                     !.q[qid].bound =
                         (code \in {1, 2}
                             /\ Overlay(e.q[qid].mark, e.sol) # e.q[qid].mark),
                     !.sol = <<>>],
           "PL_next_solution", qid)

\* Fetch: the exception of query qid, or with 0 the pending exception.
PL_exception(e, qid) == IF qid = 0 THEN e.exc ELSE e.q[qid].exc

PL_raise_exception(e, t) == Called([e EXCEPT !.exc = t], "PL_raise_exception", t)

PL_clear_exception(e) == Called([e EXCEPT !.exc = 0], "PL_clear_exception", 0)

\* Cut: the query ends, with its marker, and the bindings stay.
PL_cut_query(e, qid) ==
    Called([e EXCEPT !.q[qid].state = "cut", !.q[qid].cuts = @ + 1,
                     !.q[qid].exc = 0, !.q[qid].mark = <<>>],
           "PL_cut_query", qid)

\* Close: the query ends and the term stack goes back to its marker.
PL_close_query(e, qid) ==
    Called([e EXCEPT !.q[qid].state = "closed", !.q[qid].closes = @ + 1,
                     !.q[qid].exc = 0, !.q[qid].mark = <<>>,
                     !.terms = e.q[qid].mark],
           "PL_close_query", qid)

PL_open_foreign_frame(e) ==
    Called([e EXCEPT !.frames = @ + 1, !.fmarks = Append(@, e.terms)],
           "PL_open_foreign_frame", e.frames + 1)

\* The marker of the innermost frame (frames end innermost first).
TopMark(e) == IF e.fmarks = <<>> THEN e.terms ELSE e.fmarks[Len(e.fmarks)]

PopMark(e) == IF e.fmarks = <<>> THEN <<>> ELSE SubSeq(e.fmarks, 1, Len(e.fmarks) - 1)

\* Discard: back to the marker, and the frame is gone.
PL_discard_foreign_frame(e) ==
    Called([e EXCEPT !.frames = @ - 1, !.terms = TopMark(e), !.fmarks = PopMark(e)],
           "PL_discard_foreign_frame", e.frames)

\* Rewind: back to the marker, and the frame stays open.
PL_rewind_foreign_frame(e) ==
    Called([e EXCEPT !.terms = TopMark(e)], "PL_rewind_foreign_frame", e.frames)

\* Close: the term references made since the marker are given up, the
\* bindings of the older terms stay, and the frame is gone.
PL_close_foreign_frame(e) ==
    Called([e EXCEPT !.frames = @ - 1,
                     !.terms = SubSeq(e.terms, 1, Len(TopMark(e))),
                     !.fmarks = PopMark(e)],
           "PL_close_foreign_frame", e.frames)

----------------------------------------------------------------------------
(* Context values.                                                         *)

BaseContext ==
    [kind |-> "activation", parent |-> 0, activated |-> TRUE, qid |-> 0,
     closed |-> FALSE]

FrameContext(p) ==
    [kind |-> "frame", parent |-> p, activated |-> TRUE, qid |-> 0,
     closed |-> FALSE]

\* OpenQuery { qid, closed: false } inside Context::new_activated.
QueryContext(p, qid) ==
    [kind |-> "query", parent |-> p, activated |-> TRUE, qid |-> qid,
     closed |-> FALSE]

\* A child borrows its parent for as long as it lives.
HasChild(cs, i) == \E k \in 1..Len(cs) : cs[k].parent = i

\* cs without its i-th context, which has no child.
Remove(cs, i) ==
    [k \in 1..(Len(cs) - 1) |->
        LET c == IF k < i THEN cs[k] ELSE cs[k + 1]
        IN  [c EXCEPT !.parent = IF @ > i THEN @ - 1 ELSE @]]

----------------------------------------------------------------------------
(* The destructors.                                                        *)

\* Drop for OpenQuery with the test of `closed` left out.
OpenQueryDropAlways(q, e) == PL_close_query(e, q.qid)

\* Drop for OpenQuery that never closes.
OpenQueryDropNever(q, e) == e

\* Drop for OpenQuery: an open query is discarded.
OpenQueryDrop(q, e) == IF ~q.closed THEN PL_close_query(e, q.qid) ELSE e

\* A frame destructor that leaves the frame to the engine.
FrameDropNothing(c, e) == e

\* Dropping a frame that was not closed rewinds it.
FrameDrop(c, e) == IF ~c.closed THEN PL_discard_foreign_frame(e) ELSE e

\* Destroying the context cs[i]: control returns to its parent, then the
\* context's own value (the OpenQuery, the frame) is dropped.
DropCtx(cs, e, i) ==
    LET c   == cs[i]
        cs1 == IF c.parent # 0 THEN [cs EXCEPT ![c.parent].activated = TRUE]
               ELSE cs
        e1  == CASE c.kind = "query" -> OpenQueryDrop(c, e)
                 [] c.kind = "frame" -> FrameDrop(c, e)
                 [] OTHER -> e
    IN  [ctxs |-> Remove(cs1, i), engine |-> e1]

----------------------------------------------------------------------------
(* OpenCall for OpenQuery, and once / ignore of Context<C: OpenCall>.      *)
(* Each operator gives the outcome of one call: the contexts and engine    *)
(* after it, the value returned (res) and, for a panic, its cause (why).   *)

Outcome(cs, e, res, why) == [ctxs |-> cs, engine |-> e, res |-> res, why |-> why]

\* The match of next_solution with the arms of 1 and 2 exchanged.
SolutionResultSwapped(code) ==
    CASE code = -1 -> "Exception"
      [] code = 0  -> "Failure"
      [] code = 1  -> "OkFalse"
      [] code = 2  -> "OkTrue"
      [] OTHER     -> "panic"

\* The match on the result of PL_next_solution.
SolutionResult(code) ==
    CASE code = -1 -> "Exception"
      [] code = 0  -> "Failure"
      [] code = 1  -> "OkTrue"
      [] code = 2  -> "OkFalse"
      [] OTHER     -> "panic"

\* The -1 arm without the re-raise.
RethrowNothing(e, qid) == Called(e, "PL_exception", qid)

\* The -1 arm: fetch the query's exception and raise it again as the
\* pending exception, which outlives the query.
Rethrow(e, qid) ==
    PL_raise_exception(Called(e, "PL_exception", qid), PL_exception(e, qid))

\* next_solution without assert_activated.
NextSolutionNoAssert(cs, e, i, code) ==
    LET e1 == PL_next_solution(e, cs[i].qid, code)
        r  == SolutionResult(code)
    IN  Outcome(cs, IF code = -1 THEN Rethrow(e1, cs[i].qid) ELSE e1, r,
                IF r = "panic" THEN "unknown_code" ELSE "")

\* OpenCall::next_solution(&this).
NextSolutionCall(cs, e, i, code) ==
    IF ~cs[i].activated THEN Outcome(cs, e, "panic", "not_activated")
    ELSE LET e1 == PL_next_solution(e, cs[i].qid, code)
             r  == SolutionResult(code)
         IN  Outcome(cs, IF code = -1 THEN Rethrow(e1, cs[i].qid) ELSE e1, r,
                     IF r = "panic" THEN "unknown_code" ELSE "")

\* cut that closes the query where it should cut it.
CutCallClosing(cs, e, i) ==
    IF ~cs[i].activated
    THEN LET d == DropCtx(cs, e, i)
         IN  Outcome(d.ctxs, d.engine, "panic", "not_activated")
    ELSE LET e1 == PL_close_query(e, cs[i].qid)
             d  == DropCtx([cs EXCEPT ![i].closed = TRUE], e1, i)
         IN  Outcome(d.ctxs, d.engine, "Ok", "")

\* OpenCall::cut(this): `this` is dropped when the call ends, also when
\* it ends by a panic.
CutCall(cs, e, i) ==
    IF ~cs[i].activated
    THEN LET d == DropCtx(cs, e, i)
         IN  Outcome(d.ctxs, d.engine, "panic", "not_activated")
    ELSE LET e1 == PL_cut_query(e, cs[i].qid)
             d  == DropCtx([cs EXCEPT ![i].closed = TRUE], e1, i)
         IN  Outcome(d.ctxs, d.engine, "Ok", "")

\* discard that cuts the query where it should close it.
DiscardCallCutting(cs, e, i) ==
    IF ~cs[i].activated
    THEN LET d == DropCtx(cs, e, i)
         IN  Outcome(d.ctxs, d.engine, "panic", "not_activated")
    ELSE LET e1 == PL_cut_query(e, cs[i].qid)
             d  == DropCtx([cs EXCEPT ![i].closed = TRUE], e1, i)
         IN  Outcome(d.ctxs, d.engine, "Ok", "")

\* OpenCall::discard(this).
DiscardCall(cs, e, i) ==
    IF ~cs[i].activated
    THEN LET d == DropCtx(cs, e, i)
         IN  Outcome(d.ctxs, d.engine, "panic", "not_activated")
    ELSE LET e1 == PL_close_query(e, cs[i].qid)
             d  == DropCtx([cs EXCEPT ![i].closed = TRUE], e1, i)
         IN  Outcome(d.ctxs, d.engine, "Ok", "")

\* The end of a call that returns early or unwinds while it owns cs[i].
Abandon(n, i) ==
    LET d == DropCtx(n.ctxs, n.engine, i)
    IN  Outcome(d.ctxs, d.engine, n.res, n.why)

\* once that drops the context where it should cut.
OnceNoCut(cs, e, i, code) ==
    LET n == NextSolutionCall(cs, e, i, code)
    IN  IF n.res \in {"OkTrue", "OkFalse"}
        THEN LET d == DropCtx(n.ctxs, n.engine, i)
             IN  Outcome(d.ctxs, d.engine, "Ok", "")
        ELSE Abandon(n, i)

\* once that cuts whatever next_solution returned.
OnceAlwaysCut(cs, e, i, code) ==
    LET n == NextSolutionCall(cs, e, i, code)
    IN  IF n.res = "panic" THEN Abandon(n, i)
        ELSE LET c == CutCall(n.ctxs, n.engine, i)
             IN  Outcome(c.ctxs, c.engine,
                         IF n.res \in {"OkTrue", "OkFalse"} THEN "Ok" ELSE n.res,
                         c.why)

\* Context::once(self): self.next_solution()?; self.cut(); Ok(())
OnceCall(cs, e, i, code) ==
    LET n == NextSolutionCall(cs, e, i, code)
    IN  IF n.res \in {"OkTrue", "OkFalse"}
        THEN CutCall(n.ctxs, n.engine, i)
        ELSE Abandon(n, i)

\* ignore written with `?`, as once is.
IgnoreLikeOnce(cs, e, i, code) == OnceCall(cs, e, i, code)

\* Context::ignore(self): only Err(Exception) is returned; a solution and
\* a Failure both lead to the cut.
IgnoreCall(cs, e, i, code) ==
    LET n == NextSolutionCall(cs, e, i, code)
    IN  IF n.res \in {"Exception", "panic"}
        THEN Abandon(n, i)
        ELSE CutCall(n.ctxs, n.engine, i)

----------------------------------------------------------------------------
(* Callable for CallablePredicate: open.                                   *)

\* The term slots 1..k of the block are unified with their arguments.
RECURSIVE UnifyArgs(_, _)
UnifyArgs(e, k) == IF k = 0 THEN e ELSE PL_unify(UnifyArgs(e, k - 1), k)

\* The end of open with context.deactivate() left out.
EnterQueryNoDeactivate(cs, i, qid) == Append(cs, QueryContext(i, qid))

\* The end of open with a query context that is not activated.
EnterQueryNotActivated(cs, i, qid) ==
    Append([cs EXCEPT ![i].activated = FALSE],
           [QueryContext(i, qid) EXCEPT !.activated = FALSE])

\* The end of open: OpenQuery { qid, closed: false }; context.deactivate();
\* Context::new_activated(context, query, ..).
EnterQuery(cs, i, qid) ==
    Append([cs EXCEPT ![i].activated = FALSE], QueryContext(i, qid))

\* open with the query opened and entered before the arguments are unified.
OpenCallQueryFirst(cs, e, i, n, failAt) ==
    IF ~cs[i].activated THEN Outcome(cs, e, "panic", "not_activated")
    ELSE IF PL_exception(e, 0) # 0
    THEN Outcome(cs, Called(e, "PL_exception", 0), "panic", "exception_pending")
    ELSE LET e1 == PL_open_query(PL_new_term_refs(Called(e, "PL_exception", 0), n))
         IN  IF failAt # 0
             THEN Outcome(EnterQuery(cs, i, Len(e.q) + 1),
                          UnifyArgs(e1, failAt), "panic", "unify_failed")
             ELSE Outcome(EnterQuery(cs, i, Len(e.q) + 1),
                          UnifyArgs(e1, n), "Ok", "")

\* open with context.assert_no_exception() left out.
OpenCallNoExceptionCheck(cs, e, i, n, failAt) ==
    IF ~cs[i].activated THEN Outcome(cs, e, "panic", "not_activated")
    ELSE LET e1 == PL_new_term_refs(e, n)
         IN  IF failAt # 0
             THEN Outcome(cs, UnifyArgs(e1, failAt), "panic", "unify_failed")
             ELSE Outcome(EnterQuery(cs, i, Len(e.q) + 1),
                          PL_open_query(UnifyArgs(e1, n)), "Ok", "")

\* open(self, context, module, args) on the context cs[i] with n
\* arguments.  failAt is the argument whose unification the engine
\* refuses (0: none).
OpenCall(cs, e, i, n, failAt) ==
    IF ~cs[i].activated THEN Outcome(cs, e, "panic", "not_activated")
    ELSE IF PL_exception(e, 0) # 0
    THEN Outcome(cs, Called(e, "PL_exception", 0), "panic", "exception_pending")
    ELSE LET e1 == PL_new_term_refs(Called(e, "PL_exception", 0), n)
         IN  IF failAt # 0
             THEN Outcome(cs, UnifyArgs(e1, failAt), "panic", "unify_failed")
             ELSE Outcome(EnterQuery(cs, i, Len(e.q) + 1),
                          PL_open_query(UnifyArgs(e1, n)), "Ok", "")

\* Context::open_frame(&self).
OpenFrameCall(cs, e, i) ==
    IF ~cs[i].activated THEN Outcome(cs, e, "panic", "not_activated")
    ELSE Outcome(Append([cs EXCEPT ![i].activated = FALSE], FrameContext(i)),
                 PL_open_foreign_frame(e), "Ok", "")

\* Context::new_term_ref(&self).
NewTermRefCall(cs, e, i) ==
    IF ~cs[i].activated THEN Outcome(cs, e, "panic", "not_activated")
    ELSE Outcome(cs, PL_new_term_ref(e), "Ok", "")

\* Context<Frame>::rewind_frame(&self): the frame stays open.
RewindFrameCall(cs, e, i) ==
    IF ~cs[i].activated THEN Outcome(cs, e, "panic", "not_activated")
    ELSE Outcome(cs, PL_rewind_foreign_frame(e), "Ok", "")

\* close that does not record that the frame is closed.
CloseFrameCallUnmarked(cs, e, i) ==
    IF ~cs[i].activated
    THEN LET d == DropCtx(cs, e, i)
         IN  Outcome(d.ctxs, d.engine, "panic", "not_activated")
    ELSE LET d == DropCtx(cs, PL_close_foreign_frame(e), i)
         IN  Outcome(d.ctxs, d.engine, "Ok", "")

\* Context<Frame>::close(self): the frame is committed, then dropped as
\* a closed frame.
CloseFrameCall(cs, e, i) ==
    IF ~cs[i].activated
    THEN LET d == DropCtx(cs, e, i)
         IN  Outcome(d.ctxs, d.engine, "panic", "not_activated")
    ELSE LET e1 == PL_close_foreign_frame(e)
             d  == DropCtx([cs EXCEPT ![i].closed = TRUE], e1, i)
         IN  Outcome(d.ctxs, d.engine, "Ok", "")

----------------------------------------------------------------------------
(* Term::unify (src/swipl/src/term.rs).                                    *)

\* unify that compares and never binds.
UnifyCallCompareOnly(cs, e, t, v) ==
    IF cs = <<>> THEN Outcome(cs, e, "panic", "engine_not_active")
    ELSE Outcome(cs, Called(e, "PL_unify_uint64", t),
                 IF e.terms[t] = v THEN "true" ELSE "false", "")

\* term.unify(v) for an integer v: assert_term_handling_possible, which
\* asks for the term's engine to be active and not for the term's context
\* to be activated, then PL_unify_uint64(..) != 0.
UnifyCall(cs, e, t, v) ==
    IF cs = <<>> THEN Outcome(cs, e, "panic", "engine_not_active")
    ELSE IF UnifyOk(e, t, v)
    THEN Outcome(cs, PL_unify_uint64(e, t, v), "true", "")
    ELSE Outcome(cs, Called(e, "PL_unify_uint64", t), "false", "")

----------------------------------------------------------------------------
(* Engines and activation tokens (engine.rs), from spec.md sections 3 and  *)
(* 4.1.  An engine is activated on a thread by engine.activate(), which    *)
(* gives the activation token; the token's destruction deactivates the     *)
(* engine.                                                                 *)

MaxThreads == 2     \* threads
MaxEngines == 2     \* engines

Threads == 1..MaxThreads

Engines == 1..MaxEngines

\* No token exists.  tokens: the live tokens, as <<thread, engine>>;
\* current: the engine the thread is attached to (0: none); active: the
\* engine's own flag; unwinding: the thread unwinds from a panic; had: the
\* thread released a token before; last: the last operation.
NoActivation ==
    [tokens |-> {}, current |-> [t \in Threads |-> 0],
     active |-> [e \in Engines |-> FALSE],
     unwinding |-> [t \in Threads |-> FALSE],
     had |-> [t \in Threads |-> FALSE],
     last |-> [op |-> "init", thread |-> 0, engine |-> 0, res |-> "Ok", why |-> ""]]

\* activate that checks nothing.
ActivateCallUnchecked(a, t, e) ==
    [act |-> [a EXCEPT !.tokens = @ \cup {<<t, e>>}, !.current[t] = e,
                       !.active[e] = TRUE],
     res |-> "Ok", why |-> ""]

\* engine.activate() on thread t: fatal when the engine is active already
\* and when the thread has an engine active.
ActivateCall(a, t, e) ==
    IF a.active[e]
    THEN [act |-> a, res |-> "panic", why |-> "engine_already_active"]
    ELSE IF a.current[t] # 0
    THEN [act |-> a, res |-> "panic", why |-> "thread_has_active_engine"]
    ELSE [act |-> [a EXCEPT !.tokens = @ \cup {<<t, e>>}, !.current[t] = e,
                            !.active[e] = TRUE],
          res |-> "Ok", why |-> ""]

\* The destruction of the token of engine e on thread t.
ReleaseCall(a, t, e) ==
    [a EXCEPT !.tokens = @ \ {<<t, e>>}, !.current[t] = 0, !.active[e] = FALSE]

\* The contexts, queries and terms stay as they are.
ContextsUnchanged == UNCHANGED <<ctxs, engine, ret, panicking, unconsumed>>

ActivateEngine(t, e) ==
    /\ ~activation.unwinding[t]
    /\ LET o == ActivateCall(activation, t, e)
       IN  activation' =
               [o.act EXCEPT !.unwinding[t] = (o.res = "panic"),
                             !.last = [op |-> "activate", thread |-> t,
                                       engine |-> e, res |-> o.res,
                                       why |-> o.why]]
    /\ ContextsUnchanged
    /\ UNCHANGED <<lazy, call>>

\* The token is given up: by the explicit deactivation or at the end of
\* its scope.
Release(t, e, how) ==
    /\ ~activation.unwinding[t]
    /\ <<t, e>> \in activation.tokens
    /\ activation' =
           [ReleaseCall(activation, t, e) EXCEPT
               !.had[t] = TRUE,
               !.last = [op |-> how, thread |-> t, engine |-> e,
                         res |-> "Ok", why |-> ""]]
    /\ ContextsUnchanged
    /\ UNCHANGED <<lazy, call>>

\* The thread unwinds from a fatal error: its token, if it has one, is
\* destroyed on the way.
Unwind(t) ==
    /\ activation.unwinding[t]
    /\ LET held == {e \in Engines : <<t, e>> \in activation.tokens}
       IN  IF held = {}
           THEN activation' =
                    [activation EXCEPT
                        !.unwinding[t] = FALSE,
                        !.last = [op |-> "unwound", thread |-> t, engine |-> 0,
                                  res |-> "Ok", why |-> ""]]
           ELSE \E e \in held :
                    activation' =
                        [ReleaseCall(activation, t, e) EXCEPT
                            !.had[t] = TRUE,
                            !.last = [op |-> "unwind", thread |-> t,
                                      engine |-> e, res |-> "Ok", why |-> ""]]
    /\ ContextsUnchanged
    /\ UNCHANGED <<lazy, call>>

NextEngine ==
    \/ \E t \in Threads, e \in Engines : ActivateEngine(t, e)
    \/ \E t \in Threads, e \in Engines :
          \E how \in {"deactivate", "scope_end"} : Release(t, e, how)
    \/ \E t \in Threads : Unwind(t)

----------------------------------------------------------------------------
(* LazyCallablePredicate (src/swipl/src/callable.rs).                      *)

\* The cell `predicate` is the only state the callers share, and every
\* access to it is atomic: whatever the memory ordering, the accesses to
\* one atomic cell are totally ordered, so the calls are interleavings of
\* the steps load, lookup, store and wrap.

MaxCalls == 2       \* as_callable calls of one thread

\* The null pointer, and the predicate_t of (module, name, N): the engine
\* has one predicate per key and gives it at every lookup.
Null == 0

Handle == 1

\* LazyCallablePredicate::new, with no call started.  predicate: the cell;
\* pc, loaded: where each thread's call is and its local `loaded`; result:
\* what each thread's last call returned (Null: none yet); the rest counts
\* what happened: calls started, lookups (of all, of each thread), stores,
\* calls that loaded before the first store; late: the thread's call
\* loaded after a store.
NewLazy ==
    [predicate |-> Null,
     pc |-> [t \in Threads |-> "idle"],
     loaded |-> [t \in Threads |-> Null],
     result |-> [t \in Threads |-> Null],
     calls |-> [t \in Threads |-> 0],
     looked |-> [t \in Threads |-> 0],
     late |-> [t \in Threads |-> FALSE],
     lookups |-> 0, stores |-> 0, early |-> 0,
     last |-> [op |-> "init", thread |-> 0, res |-> "Ok"]]

\* A load that does not see the cell.
AtomicLoadStale(cell) == Null

\* self.predicate.load(Ordering::Relaxed)
AtomicLoad(cell) == cell

\* Predicate::new(functor, module).predicate_ptr()
PredicateNew == Handle

\* A store of something else than what was looked up.
StoredValueOther(v) == v + 1

\* self.predicate.store(loaded as *mut c_void, Relaxed): the value stored.
StoredValue(v) == v

\* as_callable, first steps: assert_some_engine_is_active(), then the load
\* and the test of `loaded.is_null()`.
LoadStep(l, t, engineActive) ==
    IF ~engineActive
    THEN [l EXCEPT !.calls[t] = @ + 1,
                   !.last = [op |-> "load", thread |-> t, res |-> "panic"]]
    ELSE LET v == AtomicLoad(l.predicate)
         IN  [l EXCEPT !.calls[t] = @ + 1,
                       !.loaded[t] = v,
                       !.pc[t] = IF v = Null THEN "lookup" ELSE "wrap",
                       !.late[t] = (l.stores > 0),
                       !.early = IF l.stores = 0 THEN @ + 1 ELSE @,
                       !.last = [op |-> "load", thread |-> t, res |-> "Ok"]]

\* The lookup: loaded = Predicate::new(..).predicate_ptr().
LookupStep(l, t) ==
    [l EXCEPT !.loaded[t] = PredicateNew,
              !.pc[t] = "store",
              !.lookups = @ + 1,
              !.looked[t] = @ + 1,
              !.last = [op |-> "lookup", thread |-> t, res |-> "Ok"]]

\* The store.
StoreStep(l, t) ==
    [l EXCEPT !.predicate = StoredValue(l.loaded[t]),
              !.pc[t] = "wrap",
              !.stores = @ + 1,
              !.last = [op |-> "store", thread |-> t, res |-> "Ok"]]

\* CallablePredicate::wrap(loaded): the call returns.
WrapStep(l, t) ==
    [l EXCEPT !.result[t] = l.loaded[t],
              !.pc[t] = "idle",
              !.last = [op |-> "wrap", thread |-> t, res |-> "Ok",
                        late |-> l.late[t]]]

LazyStep(l) ==
    /\ lazy' = l
    /\ ContextsUnchanged
    /\ UNCHANGED <<activation, call>>

Load(t, engineActive) ==
    /\ lazy.pc[t] = "idle"
    /\ lazy.calls[t] < MaxCalls
    /\ LazyStep(LoadStep(lazy, t, engineActive))

Lookup(t) ==
    /\ lazy.pc[t] = "lookup"
    /\ LazyStep(LookupStep(lazy, t))

Store(t) ==
    /\ lazy.pc[t] = "store"
    /\ LazyStep(StoreStep(lazy, t))

Wrap(t) ==
    /\ lazy.pc[t] = "wrap"
    /\ LazyStep(WrapStep(lazy, t))

NextLazy ==
    \/ \E t \in Threads, engineActive \in BOOLEAN : Load(t, engineActive)
    \/ \E t \in Threads : Lookup(t)
    \/ \E t \in Threads : Store(t)
    \/ \E t \in Threads : Wrap(t)

----------------------------------------------------------------------------
(* CallablePredicate::new (src/swipl/src/callable.rs).                     *)

\* No call was made yet.
NoCall == [fn |-> "none"]

\* The number of values of a u16 (PredicateWrapError::WrongArity holds
\* expected and actual as u16).
U16 == 65536

\* The arities N of CallablePredicate<N> (a usize) and the real arities of
\* predicates (a u16) that are tried: small ones, and the ones around the
\* largest u16.
WrapN == {0, 1, 2, 3, 4, 65535, 65536, 65537, 65538}

WrapArity == {0, 1, 2, 3, 4, 65535}

\* CallablePredicate::<N>::new(predicate), with arity the result of
\* predicate.arity(): `arity as usize != N` compares the values as they
\* are, `N as u16` keeps the low 16 bits of N.
CallablePredicateNew(n, arity, engineActive) ==
    IF ~engineActive THEN [res |-> "panic", expected |-> 0, actual |-> 0]
    ELSE IF arity # n
    THEN [res |-> "WrongArity", expected |-> n % U16, actual |-> arity]
    ELSE [res |-> "Ok", expected |-> 0, actual |-> 0]

----------------------------------------------------------------------------
(* Term::unify and Term::get with their values (src/swipl/src/term.rs).    *)
(* A store is what the term handles of a test refer to: terms[k] is the    *)
(* cell of handle k, cells[c] the value of the cell, origin[k] the engine  *)
(* on which handle k was made.  Two handles share a cell once they were    *)
(* unified while one was unbound.  A value is a kind and a sequence of     *)
(* integers: "var" (unbound), "atom", "int", "string".                     *)

Var == [v |-> <<>>, ty |-> "var"]

\* The handles of a store, and the engines.
OpTerms == {1, 2}

OpEngines == {1, 2}

\* Two fresh terms, the second made on the engine o2.
NewStore(o2) ==
    [terms |-> <<1, 2>>, cells |-> <<Var, Var>>, origin |-> <<1, o2>>]

ValueOf(s, t) == s.cells[s.terms[t]]

\* UTF-8: the bytes of a text (code points below 2048) and back.
RECURSIVE Utf8Encode(_)
Utf8Encode(cps) ==
    IF cps = <<>> THEN <<>>
    ELSE LET c == Head(cps)
         IN  (IF c < 128 THEN <<c>> ELSE <<192 + (c \div 64), 128 + (c % 64)>>)
                 \o Utf8Encode(Tail(cps))

RECURSIVE Utf8Decode(_)
Utf8Decode(bytes) ==
    IF bytes = <<>> THEN <<>>
    ELSE LET b == Head(bytes)
         IN  IF b < 128 THEN <<b>> \o Utf8Decode(Tail(bytes))
             ELSE <<(b - 192) * 64 + (bytes[2] - 128)>>
                      \o Utf8Decode(Tail(Tail(bytes)))

\* The engine unifies the term t with the value ev: an unbound term is
\* bound, with every handle that shares its cell; a bound term unifies
\* with its own value only and is left as it is.
EngineUnify(s, t, ev) ==
    IF ValueOf(s, t) = Var
    THEN [store |-> [s EXCEPT !.cells[s.terms[t]] = ev], ok |-> TRUE]
    ELSE [store |-> s, ok |-> ValueOf(s, t) = ev]

\* PL_unify(t1, t2): two bound terms unify when their values are equal; an
\* unbound term takes the cell of the other.
PL_unify_terms(s, t1, t2) ==
    LET c1 == s.terms[t1]
        c2 == s.terms[t2]
    IN  IF c1 = c2 THEN [store |-> s, ok |-> TRUE]
        ELSE IF s.cells[c1] = Var
        THEN [store |-> [s EXCEPT !.terms =
                            [k \in DOMAIN s.terms |->
                                IF s.terms[k] = c1 THEN c2 ELSE s.terms[k]]],
              ok |-> TRUE]
        ELSE IF s.cells[c2] = Var
        THEN [store |-> [s EXCEPT !.terms =
                            [k \in DOMAIN s.terms |->
                                IF s.terms[k] = c2 THEN c1 ELSE s.terms[k]]],
              ok |-> TRUE]
        ELSE [store |-> s, ok |-> s.cells[c1] = s.cells[c2]]

\* PL_unify_bool(t, num): with the atom true or false.
PL_unify_bool(s, t, num) ==
    EngineUnify(s, t, [v |-> <<IF num # 0 THEN 1 ELSE 0>>, ty |-> "atom"])

\* PL_get_bool(t, &out): of the atoms true and false.
PL_get_bool(s, t) ==
    IF ValueOf(s, t).ty = "atom"
    THEN [ok |-> TRUE, out |-> ValueOf(s, t).v]
    ELSE [ok |-> FALSE, out |-> <<>>]

\* A u64 is written as four 16-bit digits, the highest first; the engine
\* keeps an integer (never negative here) as its digits without leading
\* zeros.
RECURSIVE Digits(_)
Digits(d) == IF d # <<>> /\ Head(d) = 0 THEN Digits(Tail(d)) ELSE d

RECURSIVE AsU64(_)
AsU64(d) == IF Len(d) < 4 THEN AsU64(<<0>> \o d) ELSE d

\* PL_unify_uint64(t, n): with the integer n.
PL_unify_uint64_value(s, t, n) ==
    EngineUnify(s, t, [v |-> Digits(n), ty |-> "int"])

\* PL_cvt_i_uint64(t, &out): of an integer that a u64 can hold.
PL_cvt_i_uint64(s, t) ==
    IF ValueOf(s, t).ty = "int" /\ Len(ValueOf(s, t).v) <= 4
    THEN [ok |-> TRUE, out |-> AsU64(ValueOf(s, t).v)]
    ELSE [ok |-> FALSE, out |-> <<>>]

\* PL_unify_chars(t, PL_STRING | REP_UTF8, len, bytes): with the string
\* whose UTF-8 form is the first len bytes.
PL_unify_chars(s, t, len, bytes) ==
    EngineUnify(s, t, [v |-> Utf8Decode(SubSeq(bytes, 1, len)), ty |-> "string"])

\* PL_get_nchars(t, &len, &ptr, CVT_STRING | REP_UTF8): of a string, its
\* UTF-8 form.
PL_get_nchars(s, t) ==
    IF ValueOf(s, t).ty = "string"
    THEN [ok |-> TRUE, out |-> Utf8Encode(ValueOf(s, t).v)]
    ELSE [ok |-> FALSE, out |-> <<>>]

\* The values of Rust that are unified and read: bools (true is 1),
\* u64s (0, 42 and 0xffffffffffffffff) and texts, as code points (the
\* empty one, and an h followed by a two-byte character).
RustBools == {[v |-> <<b>>, ty |-> "bool"] : b \in {0, 1}}

RustU64s ==
    {[v |-> d, ty |-> "u64"] :
        d \in {<<0, 0, 0, 0>>, <<0, 0, 0, 42>>, <<65535, 65535, 65535, 65535>>}}

RustStrs ==
    {[v |-> c, ty |-> "str"] : c \in {<<>>, <<104, 233>>}}

RustValues == RustBools \cup RustU64s \cup RustStrs

RustTypes == {"bool", "u64", "str"}

\* What a term operation gives: the store after it, what it returned
\* (res, out), the cause of a panic, and the engine functions it called.
TermOutcome(s, res, why, out, calls) ==
    [res |-> res, why |-> why, calls |-> calls, store |-> s, out |-> out]

\* The guard that lets everything pass.
AssertNothing(s, t, current, ctxEngine) == ""

\* Term::assert_term_handling_possible(context) on the term t, where
\* current is the engine active on the thread (0: none) and ctxEngine the
\* engine of the context: the panic message, or "" when it returns.
AssertTermHandlingPossible(s, t, current, ctxEngine) ==
    IF s.origin[t] # current THEN "term is not part of an active engine"
    ELSE IF s.origin[t] # ctxEngine
    THEN "term unification called with a context whose engine does not match this term"
    ELSE ""

\* The match of Unifiable for bool with its arms exchanged.
BoolNumSwapped(b) == IF b = 1 THEN 0 ELSE 1

\* Unifiable for bool: match self { true => 1, false => 0 }.
BoolNum(b) == IF b = 1 THEN 1 ELSE 0

\* Unifiable::unify(value, context, term) for bool, u64 and &str.
UnifyValue(s, t, val, current, ctxEngine) ==
    LET why == AssertTermHandlingPossible(s, t, current, ctxEngine)
    IN  IF why # "" THEN TermOutcome(s, "panic", why, <<>>, <<>>)
        ELSE LET r == CASE val.ty = "bool" -> PL_unify_bool(s, t, BoolNum(val.v[1]))
                        [] val.ty = "u64" -> PL_unify_uint64_value(s, t, val.v)
                        [] OTHER ->
                             LET bytes == Utf8Encode(val.v)
                             IN  PL_unify_chars(s, t, Len(bytes), bytes)
                 f == CASE val.ty = "bool" -> "PL_unify_bool"
                        [] val.ty = "u64" -> "PL_unify_uint64"
                        [] OTHER -> "PL_unify_chars"
             IN  TermOutcome(r.store, IF r.ok THEN "true" ELSE "false", "",
                             <<>>, <<f>>)

\* TermGetable::get(context, term) for bool, u64 and String.
GetValue(s, t, ty, current, ctxEngine) ==
    LET why == AssertTermHandlingPossible(s, t, current, ctxEngine)
    IN  IF why # "" THEN TermOutcome(s, "panic", why, <<>>, <<>>)
        ELSE LET r == CASE ty = "bool" -> PL_get_bool(s, t)
                        [] ty = "u64" -> PL_cvt_i_uint64(s, t)
                        [] OTHER -> PL_get_nchars(s, t)
                 f == CASE ty = "bool" -> "PL_get_bool"
                        [] ty = "u64" -> "PL_cvt_i_uint64"
                        [] OTHER -> "PL_get_nchars"
                 o == CASE ty = "bool" -> <<IF r.out # <<0>> THEN 1 ELSE 0>>
                        [] ty = "u64" -> r.out
                        [] OTHER -> Utf8Decode(r.out)
             IN  IF r.ok THEN TermOutcome(s, "Some", "", o, <<f>>)
                 ELSE TermOutcome(s, "None", "", <<>>, <<f>>)

\* Unifiable for &Term that takes every unification for a success.
UnifyTermIgnoringResult(s, other, t, current, ctxEngine) ==
    LET why == AssertTermHandlingPossible(s, t, current, ctxEngine)
    IN  IF why # "" THEN TermOutcome(s, "panic", why, <<>>, <<>>)
        ELSE IF s.origin[other] # s.origin[t]
        THEN TermOutcome(s, "panic",
                 "terms being unified are not part of the same engine", <<>>, <<>>)
        ELSE TermOutcome(PL_unify_terms(s, other, t).store, "true", "", <<>>,
                         <<"PL_unify">>)

\* Unifiable for &Term: term.unify(&other).
UnifyTerm(s, other, t, current, ctxEngine) ==
    LET why == AssertTermHandlingPossible(s, t, current, ctxEngine)
    IN  IF why # "" THEN TermOutcome(s, "panic", why, <<>>, <<>>)
        ELSE IF s.origin[other] # s.origin[t]
        THEN TermOutcome(s, "panic",
                 "terms being unified are not part of the same engine", <<>>, <<>>)
        ELSE LET r == PL_unify_terms(s, other, t)
             IN  TermOutcome(r.store, IF r.ok THEN "true" ELSE "false", "",
                             <<>>, <<"PL_unify">>)

----------------------------------------------------------------------------
(* Deserialization of sequences and tuples (src/swipl/src/term/de.rs).     *)
(* A term is its functor name and its arguments; an atom has none.  A list *)
(* is written with the name "[]" and its elements as arguments, the comma  *)
(* tuple (a, b, c) is ','(a, ','(b, c)).                                    *)

MaxElems == 3       \* elements of a compound term, list or comma tuple

AtomTerm(name) == [f |-> name, args |-> <<>>]

Elems == {AtomTerm("a"), AtomTerm("b"), AtomTerm("c")}

ElemSeqs == UNION {[1..n -> Elems] : n \in 1..MaxElems}

ListTerm(es) == [f |-> "[]", args |-> es]

RECURSIVE CommaTerm(_)
CommaTerm(es) ==
    IF Len(es) = 1 THEN es[1]
    ELSE [f |-> ",", args |-> <<Head(es), CommaTerm(Tail(es))>>]

\* The terms that are deserialized: f(..) and g(..), lists, comma tuples
\* and atoms.
SeqTerms ==
    {[f |-> name, args |-> es] : name \in {"f", "g"}, es \in ElemSeqs}
        \cup {ListTerm(es) : es \in ElemSeqs \cup {<<>>}}
        \cup {CommaTerm(es) : es \in ElemSeqs}

IsList(term) == term.f = "[]"

IsCompound(term) == ~IsList(term) /\ term.args # <<>>

\* term.get::<Functor>() == Some(functor!(",/2")).
IsCommaFunctor(term) == IsCompound(term) /\ term.f = "," /\ Len(term.args) = 2

\* The elements a1, ..., an of a term, from left to right.
RECURSIVE CommaElems(_)
CommaElems(term) ==
    IF IsCommaFunctor(term)
    THEN <<term.args[1]>> \o CommaElems(term.args[2])
    ELSE <<term>>

ElementsOf(term) ==
    IF IsCommaFunctor(term) THEN CommaElems(term) ELSE term.args

\* The vector in the order it was built.
NotReversed(terms) == terms

\* terms.reverse().
Reverse(terms) == [k \in 1..Len(terms) |-> terms[Len(terms) + 1 - k]]

NoAccess == [terms |-> <<>>, kind |-> "none"]

CompoundTermSeqAccess(terms) == [terms |-> terms, kind |-> "compound"]

CommaCompoundTermSeqAccess(term) == [terms |-> <<term>>, kind |-> "comma"]

ListSeqAccess(term) == [terms |-> term.args, kind |-> "list"]

\* What a deserializer call hands to the visitor, or its error.
Visit(access) == [res |-> "visit_seq", access |-> access]

DeError(e) == [res |-> e, access |-> NoAccess]

\* Deserializer::deserialize_tuple(self, len, visitor).
DeserializeTuple(term, len) ==
    IF IsCommaFunctor(term) THEN Visit(CommaCompoundTermSeqAccess(term))
    ELSE IF IsCompound(term) /\ Len(term.args) = len
    THEN Visit(CompoundTermSeqAccess(Reverse(term.args)))
    ELSE IF IsList(term)
    THEN IF Len(term.args) # len THEN DeError("ValueOutOfRange")
         ELSE Visit(CompoundTermSeqAccess(Reverse(term.args)))
    ELSE DeError("ValueNotOfExpectedType")

\* Deserializer::deserialize_tuple_struct(self, _name, len, visitor).
DeserializeTupleStruct(name, term, len) == DeserializeTuple(term, len)

\* Deserializer::deserialize_seq(self, visitor), of a list.
DeserializeSeq(term) == Visit(ListSeqAccess(term))

\* Deserializer::deserialize_any(self, visitor), of a compound term or a
\* list.
DeserializeAny(term) ==
    IF IsList(term) THEN DeserializeSeq(term)
    ELSE IF IsCommaFunctor(term) THEN Visit(CommaCompoundTermSeqAccess(term))
    ELSE Visit(CompoundTermSeqAccess(Reverse(term.args)))

\* next_element_seed of the three accesses: the access afterwards, and the
\* element given to the seed (out is empty for Ok(None)).
NextElementSeed(a) ==
    CASE a.kind = "compound" ->
            IF a.terms # <<>>
            THEN [out |-> <<a.terms[Len(a.terms)]>>,
                  access |-> [a EXCEPT !.terms = SubSeq(@, 1, Len(@) - 1)]]
            ELSE [out |-> <<>>, access |-> a]
      [] a.kind = "comma" ->
            IF IsCommaFunctor(a.terms[1])
            THEN [out |-> <<a.terms[1].args[1]>>,
                  access |-> [a EXCEPT !.terms = <<a.terms[1].args[2]>>]]
            ELSE [out |-> <<a.terms[1]>>, access |-> a]
      [] OTHER ->
            IF a.terms # <<>>
            THEN [out |-> <<Head(a.terms)>>,
                  access |-> [a EXCEPT !.terms = Tail(@)]]
            ELSE [out |-> <<>>, access |-> a]

----------------------------------------------------------------------------
(* The integer deserializers (src/swipl/src/term/de.rs).  An integer of    *)
(* Prolog is a sign and a magnitude, the magnitude in 16-bit digits, the   *)
(* highest first and none of them a leading zero.  An integer of Rust is   *)
(* its bit pattern: four 16-bit digits for 64 bits, two for 32, one for 16 *)
(* and one below 256 for 8.                                                *)

PrologInt(neg, mag) == [ty |-> "int", neg |-> neg, mag |-> mag]

NonInt(ty) == [ty |-> ty, neg |-> FALSE, mag |-> <<>>]

\* 0, 1, 127, 128, 255, 256, 2^15 - 1, 2^15, 2^16 - 1, 2^16, 2^31 - 1,
\* 2^31, 2^32 - 1, 2^32, 2^63 - 1, 2^63, 2^64 - 1.
U64Mags ==
    {<<>>, <<1>>, <<127>>, <<128>>, <<255>>, <<256>>, <<32767>>, <<32768>>,
     <<65535>>, <<1, 0>>, <<32767, 65535>>, <<32768, 0>>, <<65535, 65535>>,
     <<1, 0, 0>>, <<32767, 65535, 65535, 65535>>, <<32768, 0, 0, 0>>,
     <<65535, 65535, 65535, 65535>>}

\* 1, 128, 129, 2^15, 2^15 + 1, 2^31, 2^31 + 1, 2^63, 2^63 + 1.
NegMags ==
    {<<1>>, <<128>>, <<129>>, <<32768>>, <<32769>>, <<32768, 0>>,
     <<32768, 1>>, <<32768, 0, 0, 0>>, <<32768, 0, 0, 1>>}

\* The terms given to an integer deserializer: integers up to 2^64, and an
\* atom and a string.
IntSources ==
    {PrologInt(FALSE, m) : m \in U64Mags \cup {<<1, 0, 0, 0, 0>>}}
        \cup {PrologInt(TRUE, m) : m \in NegMags}
        \cup {NonInt("atom"), NonInt("string")}

\* The keys of a dictionary: Key::Int(u64) and Key::Atom.
KeySources == {PrologInt(FALSE, m) : m \in U64Mags} \cup {NonInt("atom")}

IntTypes == {"i8", "i16", "i32", "u8", "u16", "u32"}

Signed(ty) == ty \in {"i8", "i16", "i32"}

\* The magnitude m in k digits.
RECURSIVE Pad(_, _)
Pad(m, k) == IF Len(m) < k THEN Pad(<<0>> \o m, k) ELSE m

\* The two's complement of a pattern of 16-bit digits: every digit
\* inverted, and one added.
RECURSIVE AddOne(_)
AddOne(p) ==
    IF p = <<>> THEN <<>>
    ELSE LET k == Len(p)
         IN  IF p[k] = 65535 THEN AddOne(SubSeq(p, 1, k - 1)) \o <<0>>
             ELSE SubSeq(p, 1, k - 1) \o <<p[k] + 1>>

Negate(p) == AddOne([k \in 1..Len(p) |-> 65535 - p[k]])

\* Whether the magnitude a is at most the magnitude b.
RECURSIVE LexLe(_, _)
LexLe(a, b) ==
    IF a = <<>> THEN TRUE
    ELSE IF Head(a) # Head(b) THEN Head(a) < Head(b)
    ELSE LexLe(Tail(a), Tail(b))

MagLe(a, b) == Len(a) < Len(b) \/ (Len(a) = Len(b) /\ LexLe(a, b))

\* The smallest and largest value of a type, as magnitudes.
MinMag(ty) ==
    CASE ty = "i8" -> <<128>> [] ty = "i16" -> <<32768>>
      [] ty = "i32" -> <<32768, 0>> [] ty = "i64" -> <<32768, 0, 0, 0>>
      [] OTHER -> <<>>

MaxMag(ty) ==
    CASE ty = "i8" -> <<127>> [] ty = "i16" -> <<32767>>
      [] ty = "i32" -> <<32767, 65535>>
      [] ty = "i64" -> <<32767, 65535, 65535, 65535>>
      [] ty = "u8" -> <<255>> [] ty = "u16" -> <<65535>>
      [] ty = "u32" -> <<65535, 65535>>
      [] OTHER -> <<65535, 65535, 65535, 65535>>

\* Whether the integer x lies within the range of the type.
InRange(ty, x) ==
    IF x.neg THEN MagLe(x.mag, MinMag(ty)) ELSE MagLe(x.mag, MaxMag(ty))

\* term.get::<i64>() and term.get::<u64>() under attempt_opt: the 64-bit
\* pattern of an integer the type can hold; None for a term that is no
\* integer; None or a Prolog error (onFail) for an integer the type cannot
\* hold.
GetInt64(ty, x, onFail) ==
    IF x.ty # "int" THEN [res |-> "None", pat |-> <<>>]
    ELSE IF ~InRange(ty, x) THEN [res |-> onFail, pat |-> <<>>]
    ELSE [res |-> "Some",
          pat |-> IF x.neg THEN Negate(Pad(x.mag, 4)) ELSE Pad(x.mag, 4)]

\* i8::MIN as i64, i8::MAX as i64, u8::MAX as u64 and the like.
MinAs64(ty) == Negate(Pad(MinMag(ty), 4))

MaxAs64(ty) == Pad(MaxMag(ty), 4)

\* a <= b of two i64: the patterns compared with their sign bits inverted.
SignedLe(a, b) ==
    LexLe([a EXCEPT ![1] = (@ + 32768) % 65536],
          [b EXCEPT ![1] = (@ + 32768) % 65536])

\* a <= b of two u64.
UnsignedLe(a, b) == LexLe(a, b)

\* i as i8, i as u16 and the like: the low bits of the pattern.
Cast(ty, p) ==
    [ty |-> ty,
     pat |-> CASE ty \in {"i8", "u8"} -> <<p[4] % 256>>
               [] ty \in {"i16", "u16"} -> <<p[4]>>
               [] OTHER -> <<p[3], p[4]>>]

DeVisit(v) == [res |-> "visit", out |-> v]

DeFail(e) == [res |-> e, out |-> [ty |-> "none", pat |-> <<>>]]

\* Deserializer::deserialize_i8 .. deserialize_u32 on a term.
DeserializeInt(ty, x, onFail) ==
    LET g == GetInt64(IF Signed(ty) THEN "i64" ELSE "u64", x, onFail)
    IN  IF g.res = "PrologError" THEN DeFail("PrologError")
        ELSE IF g.res = "None" THEN DeFail("ValueNotOfExpectedType")
        ELSE IF Signed(ty)
        THEN IF SignedLe(MinAs64(ty), g.pat) /\ SignedLe(g.pat, MaxAs64(ty))
             THEN DeVisit(Cast(ty, g.pat))
             ELSE DeFail("ValueOutOfRange")
        ELSE IF UnsignedLe(g.pat, MaxAs64(ty))
             THEN DeVisit(Cast(ty, g.pat))
             ELSE DeFail("ValueOutOfRange")

\* KeyDeserializer::deserialize_i8 .. deserialize_u32 on a dictionary key.
KeyDeserializeInt(ty, key) ==
    IF key.ty # "int" THEN DeFail("ValueNotOfExpectedType")
    ELSE LET i == Pad(key.mag, 4)
         IN  IF UnsignedLe(i, MaxAs64(ty)) THEN DeVisit(Cast(ty, i))
             ELSE DeFail("ValueOutOfRange")

\* The integer that an integer of Rust stands for.
IntegerOf(v) ==
    LET top == IF v.ty \in {"i8", "u8"} THEN 128 ELSE 32768
    IN  IF Signed(v.ty) /\ v.pat[1] >= top
        THEN PrologInt(TRUE, IF v.ty = "i8" THEN <<256 - v.pat[1]>>
                             ELSE Digits(Negate(v.pat)))
        ELSE PrologInt(FALSE, Digits(v.pat))

----------------------------------------------------------------------------
(* DictMapAccess (src/swipl/src/term/de.rs): the entries of a dictionary   *)
(* given to a map visitor.  A dictionary is the sequence of its entries    *)
(* <<key, value>> in the order its iterator yields them.                   *)

MaxEntries == 2     \* entries of a dictionary
MaxMapCalls == 5    \* calls a visitor makes on one DictMapAccess

DictKeys == <<"k1", "k2", "k3", "k4">>

DictValues == {"v1", "v2"}

Dicts ==
    UNION {{[i \in 1..n |-> <<DictKeys[i], vs[i]>>] : vs \in [1..n -> DictValues]} :
            n \in 0..MaxEntries}

\* DictMapAccess { context, iter, next_value: None }: taken counts the
\* entries the iterator has yielded.
NewDictMapAccess(dict) == [dict |-> dict, taken |-> 0, next_value |-> <<>>]

\* next_value_seed that leaves next_value as it is.
NextValueSeedKeeping(m) ==
    IF m.next_value # <<>>
    THEN [m |-> m, res |-> "Ok", out |-> m.next_value]
    ELSE [m |-> m, res |-> "panic", out |-> <<>>]

\* DictMapAccess::next_key_seed: keyOk is whether the seed accepts the key.
NextKeySeed(m, keyOk) ==
    IF m.taken < Len(m.dict)
    THEN LET entry == m.dict[m.taken + 1]
         IN  [m |-> [m EXCEPT !.taken = @ + 1, !.next_value = <<entry[2]>>],
              res |-> IF keyOk THEN "Some" ELSE "Err",
              out |-> <<entry[1]>>]
    ELSE [m |-> m, res |-> "None", out |-> <<>>]

\* DictMapAccess::next_value_seed: next_value is swapped with None.
NextValueSeed(m) ==
    IF m.next_value # <<>>
    THEN [m |-> [m EXCEPT !.next_value = <<>>], res |-> "Ok",
          out |-> m.next_value]
    ELSE [m |-> [m EXCEPT !.next_value = <<>>], res |-> "panic", out |-> <<>>]

----------------------------------------------------------------------------
(* The deserializing-atom flag (src/swipl/src/term/de.rs): the thread     *)
(* local DESERIALIZING_ATOM and its guard DeserializingAtomState.          *)

\* DeserializingAtomState::start() with the flag at da: a panic when it is
\* set, and otherwise the flag set.
StartState(da) ==
    IF da THEN [res |-> "panic", da |-> da] ELSE [res |-> "Ok", da |-> TRUE]

\* A drop that leaves the flag as it is.
DropStateKeeping(da) == da

\* Drop for DeserializingAtomState: da.set(false).
DropState(da) == FALSE

\* DeserializingAtomState::is_deserializing_atom().
IsDeserializingAtom(da) == da

\* AtomVisitor::visit_u64 (visit_u32 on 32-bit targets).
VisitPointer(da) == IF ~IsDeserializingAtom(da) THEN "panic" ELSE "Ok"

\* Deserializer::deserialize_newtype_struct(ATOM_STRUCT_NAME, AtomVisitor):
\* gotAtom is whether the term is an atom.
DeserializeAtomStruct(da, gotAtom) ==
    IF IsDeserializingAtom(da)
    THEN IF gotAtom THEN VisitPointer(da) ELSE "ValueNotOfExpectedType"
    ELSE "deserialize_string"

MaxRefs == 2        \* atoms the visitor wraps in one behaviour

\* The threads before any call: the flag unset, no Atom::deserialize in
\* progress, no atom wrapped.
NoAtomCalls ==
    [frames |-> [t \in Threads |-> 0], flag |-> [t \in Threads |-> FALSE],
     got |-> [t \in Threads |-> "none"], refcount |-> 0]

----------------------------------------------------------------------------
(* The state machine.                                                      *)

NoEngine ==
    [q |-> <<>>, exc |-> 0, frames |-> 0, trace |-> <<>>, terms |-> <<>>,
     fmarks |-> <<>>, sol |-> <<>>]

Init ==
    /\ ctxs = <<>>
    /\ engine = NoEngine
    /\ ret = [op |-> "init", ctx |-> 0, qid |-> 0, code |-> 0, res |-> "Ok",
              why |-> ""]
    /\ panicking = FALSE
    /\ unconsumed = 0
    /\ activation = NoActivation
    /\ lazy = NewLazy
    /\ call = NoCall

\* The engine with the record of the last operation's calls emptied.
Fresh == [engine EXCEPT !.trace = <<>>]

\* What an operation did to the term stack, for the record of the
\* operation: the bindings it undid, the term references it gave up, and
\* the bindings made since the marker m that it left in place.
Undone(before, after) ==
    Cardinality({k \in 1..Len(before) :
        before[k] # 0 /\ (k > Len(after) \/ after[k] = 0)})

Freed(before, after) == Len(before) - Len(after)

Kept(m, after) ==
    Cardinality({k \in 1..Len(m) : k <= Len(after) /\ m[k] = 0 /\ after[k] # 0})

\* The operation op on context i (of query qid, with solve result code)
\* ended as o says.  A panic starts the unwinding.
Apply(op, i, qid, code, o) ==
    /\ ctxs' = o.ctxs
    /\ engine' = o.engine
    /\ ret' = [op |-> op, ctx |-> i, qid |-> qid, code |-> code,
               res |-> o.res, why |-> o.why]
    /\ panicking' = (o.res = "panic")
    /\ unconsumed' = IF o.res = "Exception" THEN qid ELSE unconsumed
    /\ UNCHANGED <<activation, lazy, call>>

\* engine.activate() and the activation turned into the base context.
Activate ==
    /\ ~panicking
    /\ ctxs = <<>>
    /\ Apply("activate", 1, 0, 0, Outcome(<<BaseContext>>, Fresh, "Ok", ""))

Open(i, n, failAt) ==
    /\ ~panicking
    /\ Len(ctxs) < MaxDepth
    /\ Len(engine.q) < MaxQueries
    /\ Apply("open", i, Len(engine.q) + 1, 0, OpenCall(ctxs, Fresh, i, n, failAt))

OpenFrame(i) ==
    /\ ~panicking
    /\ Len(ctxs) < MaxDepth
    /\ Apply("open_frame", i, 0, 0, OpenFrameCall(ctxs, Fresh, i))

NextSolution(i, code) ==
    /\ ~panicking
    /\ ctxs[i].kind = "query"
    /\ Apply("next_solution", i, ctxs[i].qid, code,
             NextSolutionCall(ctxs, Fresh, i, code))

\* The calls that take the query context by value need it unborrowed.
Cut(i) ==
    /\ ~panicking
    /\ ctxs[i].kind = "query"
    /\ ~HasChild(ctxs, i)
    /\ Apply("cut", i, ctxs[i].qid, 0, CutCall(ctxs, Fresh, i))

Discard(i) ==
    /\ ~panicking
    /\ ctxs[i].kind = "query"
    /\ ~HasChild(ctxs, i)
    /\ Apply("discard", i, ctxs[i].qid, 0, DiscardCall(ctxs, Fresh, i))

Once(i, code) ==
    /\ ~panicking
    /\ ctxs[i].kind = "query"
    /\ ~HasChild(ctxs, i)
    /\ Apply("once", i, ctxs[i].qid, code, OnceCall(ctxs, Fresh, i, code))

Ignore(i, code) ==
    /\ ~panicking
    /\ ctxs[i].kind = "query"
    /\ ~HasChild(ctxs, i)
    /\ Apply("ignore", i, ctxs[i].qid, code, IgnoreCall(ctxs, Fresh, i, code))

\* A context goes out of scope, at the end of its block or while the
\* thread unwinds; the unwinding ends when nothing is left to drop.
DropContext(i) ==
    /\ ~HasChild(ctxs, i)
    /\ LET d == DropCtx(ctxs, Fresh, i)
       IN  /\ ctxs' = d.ctxs
           /\ engine' = d.engine
           /\ panicking' = (panicking /\ d.ctxs # <<>>)
    /\ ret' = [op |-> "drop", ctx |-> i, qid |-> ctxs[i].qid, code |-> 0,
               res |-> "Ok", why |-> "", kind |-> ctxs[i].kind,
               undone |-> Undone(engine.terms, engine'.terms)]
    /\ UNCHANGED <<unconsumed, activation, lazy, call>>

\* The pending exception is consumed through the activated context.
ClearException(i) ==
    /\ ~panicking
    /\ ctxs[i].activated
    /\ engine.exc # 0
    /\ engine' = PL_clear_exception(Fresh)
    /\ ret' = [op |-> "clear_exception", ctx |-> i, qid |-> 0, code |-> 0,
               res |-> "Ok", why |-> ""]
    /\ unconsumed' = 0
    /\ UNCHANGED <<ctxs, panicking, activation, lazy, call>>

Next ==
    \/ Activate
    \/ \E i \in 1..Len(ctxs), n \in 0..MaxArity : \E f \in 0..n : Open(i, n, f)
    \/ \E i \in 1..Len(ctxs) : OpenFrame(i)
    \/ \E i \in 1..Len(ctxs), code \in Codes : NextSolution(i, code)
    \/ \E i \in 1..Len(ctxs) : Cut(i)
    \/ \E i \in 1..Len(ctxs) : Discard(i)
    \/ \E i \in 1..Len(ctxs), code \in Codes : Once(i, code)
    \/ \E i \in 1..Len(ctxs), code \in Codes : Ignore(i, code)
    \/ \E i \in 1..Len(ctxs) : DropContext(i)
    \/ \E i \in 1..Len(ctxs) : ClearException(i)

Spec == Init /\ [][Next]_vars

----------------------------------------------------------------------------
(* Terms and bindings: the same calls, with term references, their         *)
(* unification from the Rust side, the bindings a solution makes, and the  *)
(* closing and rewinding of frames.                                        *)

MaxTerms == 2          \* term references alive at one time
MaxTermQueries == 1    \* queries opened in one run with terms

\* The integers that terms are unified with (term.rs, tests: 42_u64 and
\* 43_u64).
Vals == {42, 43}

\* The bindings a solution of the query of context i may make: on terms
\* that were unbound when the query was opened.
Bindings(i) ==
    IF ctxs[i].kind # "query" THEN {}
    ELSE {b \in [1..Len(engine.terms) -> {0} \cup Vals] :
            \A k \in 1..Len(engine.terms) :
                b[k] # 0 => /\ k <= Len(engine.q[ctxs[i].qid].mark)
                            /\ engine.q[ctxs[i].qid].mark[k] = 0}

\* The solve results met here: failure, the two kinds of solution, and a
\* code outside the protocol, whose panic unwinds through the query.
TermCodes == {0, 1, 2, 3}

\* A solve step that finds no solution binds nothing.
NoBinding == [k \in 1..Len(engine.terms) |-> 0]

\* An operation on the term t with the value v ended as o says.
ApplyTerm(op, t, v, o) ==
    /\ ctxs' = o.ctxs
    /\ engine' = o.engine
    /\ ret' = [op |-> op, ctx |-> 0, qid |-> 0, code |-> 0, res |-> o.res,
               why |-> o.why, term |-> t, val |-> v]
    /\ panicking' = (o.res = "panic")
    /\ UNCHANGED <<unconsumed, activation, lazy, call>>

\* Terms are made from activation and frame contexts.
NewTermRef(i) ==
    /\ ~panicking
    /\ ctxs[i].kind # "query"
    /\ Len(engine.terms) < MaxTerms
    /\ Apply("new_term_ref", i, 0, 0, NewTermRefCall(ctxs, Fresh, i))

Unify(t, v) ==
    /\ ~panicking
    /\ ApplyTerm("unify", t, v, UnifyCall(ctxs, Fresh, t, v))

\* An operation on the frame context i ended as o says.
ApplyFrame(op, i, o) ==
    /\ ctxs' = o.ctxs
    /\ engine' = o.engine
    /\ ret' = [op |-> op, ctx |-> i, qid |-> 0, code |-> 0, res |-> o.res,
               why |-> o.why,
               undone |-> Undone(engine.terms, o.engine.terms),
               freed |-> Freed(engine.terms, o.engine.terms),
               kept |-> Kept(TopMark(engine), o.engine.terms)]
    /\ panicking' = (o.res = "panic")
    /\ UNCHANGED <<unconsumed, activation, lazy, call>>

RewindFrame(i) ==
    /\ ~panicking
    /\ ctxs[i].kind = "frame"
    /\ ApplyFrame("rewind_frame", i, RewindFrameCall(ctxs, Fresh, i))

CloseFrame(i) ==
    /\ ~panicking
    /\ ctxs[i].kind = "frame"
    /\ ~HasChild(ctxs, i)
    /\ ApplyFrame("close_frame", i, CloseFrameCall(ctxs, Fresh, i))

OpenWithTerms(i) ==
    /\ Len(engine.q) < MaxTermQueries
    /\ Open(i, 0, 0)

\* next_solution, where the solve step binds terms as b says if it finds
\* a solution.
NextSolutionBinding(i, code, b) ==
    /\ ~panicking
    /\ ctxs[i].kind = "query"
    /\ Apply("next_solution", i, ctxs[i].qid, code,
             NextSolutionCall(ctxs, [Fresh EXCEPT !.sol = b], i, code))

SpecEngine == Init /\ [][NextEngine]_vars

SpecLazy == Init /\ [][NextLazy]_vars

\* A call of a function that acts on its arguments only.
PureCall(c) ==
    /\ call' = c
    /\ ContextsUnchanged
    /\ UNCHANGED <<activation, lazy>>

WrapPredicate(n, arity, engineActive) ==
    /\ call' = [n |-> n, engineActive |-> engineActive,
                fn |-> "CallablePredicate::new", arity |-> arity,
                out |-> CallablePredicateNew(n, arity, engineActive)]
    /\ ContextsUnchanged
    /\ UNCHANGED <<activation, lazy>>

NextWrap ==
    \E n \in WrapN, arity \in WrapArity, engineActive \in BOOLEAN :
        WrapPredicate(n, arity, engineActive)

SpecWrap == Init /\ [][NextWrap]_vars

\* A term operation: the call record keeps the store it left.
TermCall(fn, t, arg, current, ctxEngine, o) ==
    PureCall([arg |-> arg, t |-> t, res |-> o.res, why |-> o.why,
              current |-> current, calls |-> o.calls, store |-> o.store,
              fn |-> fn, out |-> o.out, ctxEngine |-> ctxEngine])

TermFns == {"new_term_ref", "unify", "get", "unify_term"}

\* Two terms are made, the first on engine 1 and the second on engine o2.
MakeTerms(o2) ==
    /\ call.fn \in TermFns \cup {"none"}
    /\ TermCall("new_term_ref", 0, Var, 1, 1,
                TermOutcome(NewStore(o2), "Ok", "", <<>>, <<>>))

UnifyOp(t, val, current, ctxEngine) ==
    /\ call.fn \in TermFns
    /\ TermCall("unify", t, val, current, ctxEngine,
                UnifyValue(call.store, t, val, current, ctxEngine))

GetOp(t, ty, current, ctxEngine) ==
    /\ call.fn \in TermFns
    /\ TermCall("get", t, [v |-> <<>>, ty |-> ty], current, ctxEngine,
                GetValue(call.store, t, ty, current, ctxEngine))

UnifyTermOp(other, t, current, ctxEngine) ==
    /\ call.fn \in TermFns
    /\ TermCall("unify_term", t, [v |-> <<other>>, ty |-> "term"], current,
                ctxEngine, UnifyTerm(call.store, other, t, current, ctxEngine))

NextTermOps ==
    \/ \E o2 \in OpEngines : MakeTerms(o2)
    \/ \E t \in OpTerms, val \in RustValues, current \in {0} \cup OpEngines,
          ctxEngine \in OpEngines : UnifyOp(t, val, current, ctxEngine)
    \/ \E t \in OpTerms, ty \in RustTypes, current \in {0} \cup OpEngines,
          ctxEngine \in OpEngines : GetOp(t, ty, current, ctxEngine)
    \/ \E other \in OpTerms, t \in OpTerms, current \in {0} \cup OpEngines,
          ctxEngine \in OpEngines : UnifyTermOp(other, t, current, ctxEngine)

SpecTermOps == Init /\ [][NextTermOps]_vars

\* A deserializer is asked for a tuple, a tuple struct, a sequence or
\* anything; the visitor it calls then asks for the elements one by one.
SeqFns == {"deserialize_tuple", "deserialize_tuple_struct", "deserialize_seq",
           "deserialize_any", "next_element_seed"}

SeqCall(fn, name, term, len, o) ==
    /\ call = NoCall
    /\ PureCall([name |-> name, res |-> o.res, last |-> "none", calls |-> 0,
                 fn |-> fn, len |-> len, term |-> term, access |-> o.access,
                 delivered |-> <<>>])

TupleOf(term, len) ==
    SeqCall("deserialize_tuple", "", term, len, DeserializeTuple(term, len))

TupleStructOf(name, term, len) ==
    SeqCall("deserialize_tuple_struct", name, term, len,
            DeserializeTupleStruct(name, term, len))

SeqOf(term) ==
    /\ IsList(term)
    /\ SeqCall("deserialize_seq", "", term, Len(term.args), DeserializeSeq(term))

AnyOf(term) ==
    /\ IsList(term) \/ IsCompound(term)
    /\ SeqCall("deserialize_any", "", term, Len(ElementsOf(term)),
               DeserializeAny(term))

\* The visitor's next call of next_element_seed; it stops asking after an
\* end of sequence, and after MaxElems + 2 calls.
NextElement ==
    /\ call.fn \in SeqFns
    /\ call.res = "visit_seq"
    /\ call.last # "None"
    /\ call.calls < MaxElems + 2
    /\ LET r == NextElementSeed(call.access)
       IN  PureCall([name |-> call.name, res |-> call.res,
                     last |-> IF r.out = <<>> THEN "None" ELSE "Some",
                     calls |-> call.calls + 1, fn |-> "next_element_seed",
                     len |-> call.len, term |-> call.term,
                     access |-> r.access,
                     delivered |-> call.delivered \o r.out])

NextSeq ==
    \/ \E term \in SeqTerms, len \in 0..MaxElems : TupleOf(term, len)
    \/ \E name \in {"f", "h"}, term \in SeqTerms, len \in 0..MaxElems :
          TupleStructOf(name, term, len)
    \/ \E term \in SeqTerms : SeqOf(term)
    \/ \E term \in SeqTerms : AnyOf(term)
    \/ NextElement

SpecSeq == Init /\ [][NextSeq]_vars

\* An integer deserializer is called on a term, or on a dictionary key.
IntFns == {"Deserializer::deserialize_int", "KeyDeserializer::deserialize_int"}

IntCall(fn, ty, x, o) ==
    /\ call.fn \in IntFns \cup {"none"}
    /\ PureCall([res |-> o.res, fn |-> fn, ty |-> ty, out |-> o.out, src |-> x])

DeserializeTermInt(ty, x, onFail) ==
    IntCall("Deserializer::deserialize_int", ty, x,
            DeserializeInt(ty, x, onFail))

DeserializeKeyInt(ty, key) ==
    IntCall("KeyDeserializer::deserialize_int", ty, key,
            KeyDeserializeInt(ty, key))

NextInts ==
    \/ \E ty \in IntTypes, x \in IntSources, onFail \in {"None", "PrologError"} :
          DeserializeTermInt(ty, x, onFail)
    \/ \E ty \in IntTypes, key \in KeySources : DeserializeKeyInt(ty, key)

SpecInts == Init /\ [][NextInts]_vars

\* deserialize_map hands a DictMapAccess to the visitor, which calls
\* next_key_seed and next_value_seed in any order.  hist lists what the
\* calls did: "K" a key was taken, "E" the end was returned, "V" a value
\* was delivered, "P" a panic; given lists the entries whose value was
\* delivered.
MapFns == {"visit_map", "next_key_seed", "next_value_seed"}

MapCall(fn, r, hist, given) ==
    PureCall([m |-> r.m, res |-> r.res, fn |-> fn, out |-> r.out,
              hist |-> hist, given |-> given])

VisitMap(dict) ==
    /\ call = NoCall
    /\ MapCall("visit_map",
               [m |-> NewDictMapAccess(dict), res |-> "Ok", out |-> <<>>],
               <<>>, <<>>)

MapLive ==
    /\ call.fn \in MapFns
    /\ call.res # "panic"
    /\ Len(call.hist) < MaxMapCalls

NextKey(keyOk) ==
    /\ MapLive
    /\ LET r == NextKeySeed(call.m, keyOk)
       IN  MapCall("next_key_seed", r,
                   Append(call.hist, IF r.res = "None" THEN "E" ELSE "K"),
                   call.given)

NextValue ==
    /\ MapLive
    /\ LET r == NextValueSeed(call.m)
       IN  MapCall("next_value_seed", r,
                   Append(call.hist, IF r.res = "Ok" THEN "V" ELSE "P"),
                   IF r.res = "Ok" THEN Append(call.given, call.m.taken)
                   ELSE call.given)

NextMap ==
    \/ \E dict \in Dicts : VisitMap(dict)
    \/ \E keyOk \in BOOLEAN : NextKey(keyOk)
    \/ NextValue

SpecMap == Init /\ [][NextMap]_vars

\* Atom::deserialize on the threads.  frames[t] counts the calls of
\* Atom::deserialize in progress on thread t that hold their guard, flag[t]
\* is the thread's DESERIALIZING_ATOM, got[t] is what the deserializer has
\* returned to the call in progress ("none": nothing yet); flagAt is the
\* flag as the call found it.
AtomFns == {"Atom::deserialize", "deserialize_newtype_struct", "visit_u64",
            "return"}

AtomState == IF call.fn \in AtomFns THEN call ELSE NoAtomCalls

AtomCall(fn, t, res, a) ==
    PureCall([frames |-> a.frames, res |-> res, thread |-> t, fn |-> fn,
              flag |-> a.flag, got |-> a.got, refcount |-> a.refcount,
              flagAt |-> AtomState.flag[t]])

\* A panic unwinds the thread: the guard of every Atom::deserialize in
\* progress is dropped.
Unwound(a, t) ==
    [frames |-> [a.frames EXCEPT ![t] = 0],
     flag |-> [a.flag EXCEPT ![t] = IF a.frames[t] > 0 THEN DropState(@) ELSE @],
     got |-> [a.got EXCEPT ![t] = "none"], refcount |-> a.refcount]

\* What the deserializer returned is kept for the call in progress; the
\* visitor has incremented the reference count of the atom it wrapped.
Got(a, t, r) ==
    [frames |-> a.frames, flag |-> a.flag,
     got |-> [a.got EXCEPT ![t] = IF a.frames[t] > 0 THEN r ELSE @],
     refcount |-> IF r = "Ok" THEN a.refcount + 1 ELSE a.refcount]

\* Atom::deserialize is entered on thread t, from outside or from within a
\* deserializer that an Atom::deserialize on the thread has called.
AtomDeserialize(t) ==
    /\ call.fn \in AtomFns \cup {"none"}
    /\ LET a == AtomState
           r == StartState(a.flag[t])
       IN  IF r.res = "panic"
           THEN AtomCall("Atom::deserialize", t, "panic", Unwound(a, t))
           ELSE AtomCall("Atom::deserialize", t, "Ok",
                         [frames |-> [a.frames EXCEPT ![t] = @ + 1],
                          flag |-> [a.flag EXCEPT ![t] = r.da],
                          got |-> a.got, refcount |-> a.refcount])

\* The deserializer of this crate is asked for the atom struct on thread t.
NewtypeStruct(t, gotAtom) ==
    /\ call.fn \in AtomFns \cup {"none"}
    /\ AtomState.got[t] = "none"
    /\ AtomState.refcount < MaxRefs
    /\ LET a == AtomState
           r == DeserializeAtomStruct(a.flag[t], gotAtom)
       IN  IF r = "panic"
           THEN AtomCall("deserialize_newtype_struct", t, r, Unwound(a, t))
           ELSE AtomCall("deserialize_newtype_struct", t, r, Got(a, t, r))

\* Some other deserializer hands a pointer to the AtomVisitor on thread t.
VisitU64(t) ==
    /\ call.fn \in AtomFns \cup {"none"}
    /\ AtomState.got[t] = "none"
    /\ AtomState.refcount < MaxRefs
    /\ LET a == AtomState
           r == VisitPointer(a.flag[t])
       IN  IF r = "panic"
           THEN AtomCall("visit_u64", t, r, Unwound(a, t))
           ELSE AtomCall("visit_u64", t, r, Got(a, t, r))

\* The Atom::deserialize in progress on thread t ends: it returns what its
\* deserializer returned, or the deserializer panics.  Its guard is
\* dropped.
AtomReturn(t, panics) ==
    /\ call.fn \in AtomFns
    /\ call.frames[t] > 0
    /\ panics \/ call.got[t] # "none"
    /\ IF panics
       THEN AtomCall("return", t, "panic", Unwound(call, t))
       ELSE AtomCall("return", t, call.got[t],
                     [frames |-> [call.frames EXCEPT ![t] = @ - 1],
                      flag |-> [call.flag EXCEPT ![t] = DropState(@)],
                      got |-> [call.got EXCEPT ![t] = "none"],
                      refcount |-> call.refcount])

NextAtom ==
    \/ \E t \in Threads : AtomDeserialize(t)
    \/ \E t \in Threads, gotAtom \in BOOLEAN : NewtypeStruct(t, gotAtom)
    \/ \E t \in Threads : VisitU64(t)
    \/ \E t \in Threads, panics \in BOOLEAN : AtomReturn(t, panics)

SpecAtom == Init /\ [][NextAtom]_vars

\* Queries over terms.
NextTerms ==
    \/ Activate
    \/ \E i \in 1..Len(ctxs) : NewTermRef(i)
    \/ \E t \in 1..Len(engine.terms), v \in Vals : Unify(t, v)
    \/ \E i \in 1..Len(ctxs) : OpenWithTerms(i)
    \/ \E i \in 1..Len(ctxs), code \in TermCodes :
          \E b \in IF code \in {1, 2} THEN Bindings(i) ELSE {NoBinding} :
              NextSolutionBinding(i, code, b)
    \/ \E i \in 1..Len(ctxs) : Cut(i)
    \/ \E i \in 1..Len(ctxs) : Discard(i)
    \/ \E i \in 1..Len(ctxs) : DropContext(i)

SpecTerms == Init /\ [][NextTerms]_vars

\* Frames over terms.
NextFrames ==
    \/ Activate
    \/ \E i \in 1..Len(ctxs) : NewTermRef(i)
    \/ \E t \in 1..Len(engine.terms), v \in Vals : Unify(t, v)
    \/ \E i \in 1..Len(ctxs) : OpenFrame(i)
    \/ \E i \in 1..Len(ctxs) : RewindFrame(i)
    \/ \E i \in 1..Len(ctxs) : CloseFrame(i)
    \/ \E i \in 1..Len(ctxs) : DropContext(i)

SpecFrames == Init /\ [][NextFrames]_vars

----------------------------------------------------------------------------
(* The claims.                                                             *)

\* The query qid still has its context.
LiveIn(cs, qid) ==
    \E k \in 1..Len(cs) : cs[k].kind = "query" /\ cs[k].qid = qid

Live(qid) == LiveIn(ctxs, qid)

ClosingCalls(qid) == engine.q[qid].cuts + engine.q[qid].closes

\* A query that got one closing call, a cut or a close, and nothing else:
\* no exception term and no marker are left with it.
EndedBy(state) ==
    [NewQuery EXCEPT !.state = state,
                     !.cuts = IF state = "cut" THEN 1 ELSE 0,
                     !.closes = IF state = "closed" THEN 1 ELSE 0]

\* C1: every query opened through a Callable gets exactly one closing
\* engine call (PL_cut_query or PL_close_query): none while its context
\* lives, exactly one once its context is gone by cut, discard, once,
\* ignore, a drop or an unwinding panic, and never a second one.
C1_QueryClosedExactlyOnce ==
    \A qid \in 1..Len(engine.q) :
        /\ ClosingCalls(qid) <= 1
        /\ Live(qid) => ClosingCalls(qid) = 0 /\ engine.q[qid].state = "open"
        /\ ~Live(qid) => ClosingCalls(qid) = 1 /\ engine.q[qid].state # "open"

\* A query ended by a cut, another by a close, and a third closed by the
\* unwinding of a panic inside once.
C1_Witness ==
    /\ ret.op = "once" /\ ret.res = "panic"
    /\ engine.q[ret.qid].closes = 1
    /\ \E a, b \in 1..Len(engine.q) :
          /\ a # ret.qid /\ b # ret.qid
          /\ engine.q[a].state = "cut" /\ engine.q[b].state = "closed"

\* C2: whenever the thread has contexts, exactly one of them is
\* activated, and a context is activated exactly when it has no live
\* child: entering a child deactivates the parent, and only the child's
\* destruction activates the parent again.
C2_ExactlyOneActivated ==
    ctxs # <<>> =>
        /\ Cardinality({k \in 1..Len(ctxs) : ctxs[k].activated}) = 1
        /\ \A k \in 1..Len(ctxs) : ctxs[k].activated <=> ~HasChild(ctxs, k)

\* A parent that got control back from one query and is deactivated
\* again under a second one, itself under a frame.
C2_Witness ==
    /\ Len(ctxs) = 3
    /\ ctxs[2].kind = "frame" /\ ctxs[3].kind = "query" /\ ctxs[3].qid = 2
    /\ ~ctxs[1].activated /\ ~ctxs[2].activated /\ ctxs[3].activated

\* C3: an open that succeeds deactivates the context it was given and
\* puts an activated query context under it; an open on a context whose
\* child is alive panics and changes nothing; and the end of a query
\* context (cut, discard, once, ignore, drop) activates its parent, from
\* which a further query can then be opened when no exception is pending.
C3_OpenHandsOverControl ==
    [][ /\ (ret'.op = "open" /\ ret'.res = "Ok") =>
              /\ ctxs[ret'.ctx].activated
              /\ Len(ctxs') = Len(ctxs) + 1
              /\ ~ctxs'[ret'.ctx].activated
              /\ ctxs'[Len(ctxs')] = QueryContext(ret'.ctx, ret'.qid)
              /\ engine'.q[ret'.qid].state = "open"
        /\ (ret'.op = "open" /\ HasChild(ctxs, ret'.ctx)) =>
              ret'.res = "panic" /\ ctxs' = ctxs /\ engine'.q = engine.q
        /\ (ret'.op \in {"cut", "discard", "once", "ignore", "drop"}
               /\ ctxs[ret'.ctx].kind = "query") =>
              LET p == ctxs[ret'.ctx].parent
              IN  /\ ~ctxs[p].activated
                  /\ ctxs'[p].activated
                  /\ ~LiveIn(ctxs', ret'.qid)
                  /\ engine'.exc = 0 =>
                        OpenCall(ctxs', engine', p, 0, 0).res = "Ok"
      ]_vars

\* call_once twice in a row on the base context: the second query is
\* open under the base context and the first one is gone.
C3_Witness ==
    /\ ret.op = "open" /\ ret.res = "Ok" /\ ret.ctx = 1 /\ ret.qid = 2
    /\ Len(ctxs) = 2
    /\ engine.q[1].state = "cut"

\* C4: next_solution on an activated query context maps the code of the
\* solve step: -1 to Err(Exception), 0 to Err(Failure), 1 to Ok(true),
\* 2 to Ok(false), and panics on every other code.
C4_ResultCodeMapping ==
    (ret.op = "next_solution" /\ ret.why # "not_activated") =>
        /\ ret.code = -1 => ret.res = "Exception"
        /\ ret.code = 0 => ret.res = "Failure"
        /\ ret.code = 1 => ret.res = "OkTrue"
        /\ ret.code = 2 => ret.res = "OkFalse"
        /\ ret.code \notin {-1, 0, 1, 2} =>
              ret.res = "panic" /\ ret.why = "unknown_code" /\ panicking
        /\ ret.res = "panic" => ret.code \notin {-1, 0, 1, 2}

C4_Witness ==
    ret.op = "next_solution" /\ ret.code = 2 /\ ret.res = "OkFalse"

\* C5: once a solve step has surfaced Exception, the pending exception
\* fetched from the engine is not empty until the exception is consumed,
\* also after the query is closed; right after next_solution returned
\* Exception it is the exception of that query, fetched and then raised.
C5_ExceptionStaysPending ==
    /\ unconsumed # 0 => PL_exception(engine, 0) # 0
    /\ (ret.op = "next_solution" /\ ret.res = "Exception") =>
          /\ PL_exception(engine, 0) = PL_exception(engine, ret.qid)
          /\ engine.trace = << <<"PL_next_solution", ret.qid>>,
                               <<"PL_exception", ret.qid>>,
                               <<"PL_raise_exception", ret.qid>> >>

\* The exception is still pending after its query was discarded.
C5_Witness ==
    /\ unconsumed # 0
    /\ engine.q[unconsumed].state = "closed"
    /\ ret.op = "discard"

\* What the two calls next_solution(), then cut(), make of the state in
\* which once() was called on context i with solve result code.
TwoCalls(i, code) ==
    LET n == NextSolutionCall(ctxs, Fresh, i, code)
        c == CutCall(n.ctxs, n.engine, i)
    IN  [ctxs |-> c.ctxs, engine |-> c.engine,
         res |-> IF n.res \in {"OkTrue", "OkFalse"} THEN "Ok" ELSE n.res]

\* C6 as stated: for a solve step that reports more solutions, the last
\* solution or a logical failure, once() returns what next_solution()
\* returned (Ok(_) as Ok(())) and leaves the query closed by cut, exactly
\* as next_solution() followed by cut() does.
C6_OnceIsNextThenCut_AsStated ==
    [][ (ret'.op = "once" /\ ret'.code \in {0, 1, 2}) =>
            LET two == TwoCalls(ret'.ctx, ret'.code)
            IN  /\ ret'.res = two.res
                /\ engine'.q[ret'.qid].state = "cut"
                /\ engine' = two.engine
                /\ ctxs' = two.ctxs
      ]_vars

\* C6 as amended: for a solve step that reports a solution (more, or the
\* last) once() returns Ok(()) and leaves the query closed by cut, exactly
\* as next_solution() followed by cut() does; for a logical failure
\* once() returns Failure without a cut, and the query is closed by the
\* discard of the drop of its context.
C6_OnceIsNextThenCut ==
    [][ /\ (ret'.op = "once" /\ ret'.code \in {1, 2}) =>
              LET two == TwoCalls(ret'.ctx, ret'.code)
              IN  /\ ret'.res = "Ok"
                  /\ engine'.q[ret'.qid] = EndedBy("cut")
                  /\ engine' = two.engine
                  /\ ctxs' = two.ctxs
        /\ (ret'.op = "once" /\ ret'.code = 0) =>
              /\ ret'.res = "Failure"
              /\ engine'.q[ret'.qid] = EndedBy("closed")
              /\ engine'.trace = << <<"PL_next_solution", ret'.qid>>,
                                    <<"PL_close_query", ret'.qid>> >>
              /\ ~LiveIn(ctxs', ret'.qid)
      ]_vars

\* once() on a query whose solve step reported the last solution.
C6_Witness ==
    /\ ret.op = "once" /\ ret.code = 2 /\ ret.res = "Ok"
    /\ engine.q[ret.qid].state = "cut"

\* C7: when the solve step reports an exception, once() returns
\* Exception, issues no cut for the query, and the query is closed
\* exactly once, by the discard of the drop of its context.
C7_OnceExceptionDiscards ==
    (ret.op = "once" /\ ret.code = -1) =>
        /\ ret.res = "Exception"
        /\ \A k \in 1..Len(engine.trace) : engine.trace[k][1] # "PL_cut_query"
        /\ engine.trace[Len(engine.trace)] = <<"PL_close_query", ret.qid>>
        /\ engine.q[ret.qid] = EndedBy("closed")
        /\ ~Live(ret.qid)

C7_Witness ==
    /\ ret.op = "once" /\ ret.code = -1 /\ ret.res = "Exception"
    /\ engine.q[ret.qid].closes = 1

\* C8: ignore() returns Ok(()) when the solve step reports a solution
\* (more, or the last) or a logical failure, returns Exception exactly
\* when it reports an exception, and never returns Failure.
C8_IgnoreSwallowsFailure ==
    ret.op = "ignore" =>
        /\ ret.code \in {0, 1, 2} => ret.res = "Ok"
        /\ ret.res = "Exception" <=> ret.code = -1
        /\ ret.res # "Failure"

\* ignore() on a query whose solve step reported a logical failure.
C8_Witness ==
    /\ ret.op = "ignore" /\ ret.code = 0 /\ ret.res = "Ok"
    /\ engine.q[ret.qid].state = "cut"

\* C9: the drop of a query context that is still open issues the one
\* call PL_close_query for its query; the drop that ends a cut or a
\* discard, when the query is marked closed, issues no call after the
\* cut or close itself.
C9_DropDiscardsOpenQuery ==
    /\ (ret.op = "drop" /\ ret.qid # 0) =>
          /\ engine.trace = << <<"PL_close_query", ret.qid>> >>
          /\ engine.q[ret.qid].state = "closed"
    /\ (ret.op = "cut" /\ ret.res = "Ok") =>
          engine.trace = << <<"PL_cut_query", ret.qid>> >>
    /\ (ret.op = "discard" /\ ret.res = "Ok") =>
          engine.trace = << <<"PL_close_query", ret.qid>> >>

\* An open query context that went out of scope, after solutions were
\* retrieved from it.
C9_Witness ==
    /\ ret.op = "drop" /\ ret.qid # 0 /\ ~panicking
    /\ engine.q[ret.qid].closes = 1
    /\ \E q \in 1..Len(engine.q) : engine.q[q].state = "cut"

AllocatedOrOpened(e) ==
    \E k \in 1..Len(e.trace) :
        e.trace[k][1] \in {"PL_new_term_refs", "PL_open_query"}

\* C11: an open on the activated context while an exception is pending
\* (as it is after next_solution returned Exception, until the exception
\* is consumed) is refused: it panics, allocates no term slots and opens
\* no query; and an open is refused for that reason only while an
\* exception is pending.
C11_OpenRefusedWhilePending ==
    [][ ret'.op = "open" =>
          /\ (ctxs[ret'.ctx].activated /\ (engine.exc # 0 \/ unconsumed # 0)) =>
                /\ ret'.res = "panic" /\ ret'.why = "exception_pending"
                /\ ~AllocatedOrOpened(engine')
                /\ engine'.q = engine.q
                /\ ctxs' = ctxs
          /\ ret'.why = "exception_pending" => engine.exc # 0
      ]_vars

\* The open on the parent after its query surfaced an exception and was
\* dropped.
C11_Witness ==
    /\ ret.op = "open" /\ ret.why = "exception_pending"
    /\ unconsumed # 0 /\ ~Live(unconsumed)
    /\ ctxs[ret.ctx].activated

\* C12: an open whose context argument is an open-query context never
\* allocates term slots and never opens a second query.
C12_NoOpenFromQueryContext ==
    [][ (ret'.op = "open" /\ ctxs[ret'.ctx].kind = "query") =>
            /\ ~AllocatedOrOpened(engine')
            /\ engine'.q = engine.q
      ]_vars


\* C13: a cut keeps the bindings of the last solution: every term is
\* bound after the cut as it was before it, the terms the query's last
\* solve step bound included, and the parent context is the one that
\* sees them.
C13_CutKeepsBindings ==
    [][ (ret'.op = "cut" /\ ret'.res = "Ok") =>
            /\ engine'.terms = engine.terms
            /\ \A k \in 1..Len(engine.terms) :
                  (engine.q[ret'.qid].mark[k] = 0 /\ engine.terms[k] # 0)
                      => engine'.terms[k] = engine.terms[k]
            /\ ctxs'[ctxs[ret'.ctx].parent].activated
      ]_vars

\* A cut of a query whose last solution bound a term.
C13_Witness ==
    /\ ret.op = "cut" /\ ret.res = "Ok"
    /\ engine.q[ret.qid].bound
    /\ \E k \in 1..Len(engine.terms) : engine.terms[k] # 0

\* C14: a discard, explicit or by the drop of the open query, leaves every
\* term as it was when the query was opened, whatever solve steps and
\* unifications came in between.
C14_DiscardUndoesBindings ==
    [][ (/\ ret'.op \in {"discard", "drop"}
         /\ ret'.res = "Ok"
         /\ ctxs[ret'.ctx].kind = "query") =>
            engine'.terms = engine.q[ret'.qid].mark
      ]_vars

\* A discard after a solution that bound a term: the term is unbound
\* again, and a term bound before the query was opened is still bound.
C14_Witness ==
    /\ ret.op = "discard" /\ ret.res = "Ok"
    /\ engine.q[ret.qid].bound
    /\ \E k \in 1..Len(engine.terms) : engine.terms[k] = 0
    /\ \E k \in 1..Len(engine.terms) : engine.terms[k] # 0


\* C15: a rewind of a frame takes the term stack back to the frame's
\* marker and leaves the frame open: a term that was unbound at the marker
\* is unbound again, so that it unifies with any value, also one that
\* differs from the value it was bound to inside the frame; a term that
\* was bound at the marker keeps its value, so that only that value
\* unifies with it.
C15_RewindExactlyScoped ==
    [][ (ret'.op = "rewind_frame" /\ ret'.res = "Ok") =>
            LET m == TopMark(engine)
            IN  /\ engine'.terms = m
                /\ ctxs' = ctxs
                /\ engine'.fmarks = engine.fmarks
                /\ \A k \in 1..Len(m), v \in Vals :
                      UnifyCall(ctxs', engine', k, v).res
                          = IF m[k] \in {0, v} THEN "true" ELSE "false"
      ]_vars

\* A rewind that undid a binding and left an older binding in place.
C15_Witness ==
    /\ ret.op = "rewind_frame" /\ ret.res = "Ok"
    /\ ret.undone > 0
    /\ \E k \in 1..Len(engine.terms) : engine.terms[k] # 0
    /\ \E k \in 1..Len(engine.terms) : engine.terms[k] = 0

\* C16: the drop of a frame that was not closed leaves the engine and the
\* contexts as an explicit rewind followed by the destruction does: the
\* term stack is back at the frame's marker, the frame is gone, and the
\* parent context is activated.
C16_DropRewindsFrame ==
    [][ (ret'.op = "drop" /\ ret'.kind = "frame") =>
            LET r == RewindFrameCall(ctxs, Fresh, ret'.ctx)
                d == DropCtx(r.ctxs, r.engine, ret'.ctx)
            IN  /\ r.res = "Ok"
                /\ engine'.terms = TopMark(engine)
                /\ engine'.terms = d.engine.terms
                /\ engine'.fmarks = d.engine.fmarks
                /\ engine'.frames = engine.frames - 1
                /\ ctxs' = d.ctxs
                /\ ctxs'[ctxs[ret'.ctx].parent].activated
      ]_vars

\* The drop of a frame in which a term was bound.
C16_Witness ==
    /\ ret.op = "drop" /\ ret.kind = "frame"
    /\ ret.undone > 0
    /\ ctxs[Len(ctxs)].activated

\* C17: close commits: the term references made since the marker are
\* given up, every term older than the marker is bound as it was before
\* the close, the frame is gone without a rewind, and the parent context
\* is activated.
C17_CloseCommits ==
    [][ (ret'.op = "close_frame" /\ ret'.res = "Ok") =>
            LET m == TopMark(engine)
            IN  /\ Len(engine'.terms) = Len(m)
                /\ \A k \in 1..Len(m) : engine'.terms[k] = engine.terms[k]
                /\ engine'.frames = engine.frames - 1
                /\ \A k \in 1..Len(engine'.trace) :
                      engine'.trace[k][1] = "PL_close_foreign_frame"
                /\ Len(ctxs') = Len(ctxs) - 1
                /\ ctxs'[ctxs[ret'.ctx].parent].activated
      ]_vars

\* A close that gave up a term reference of the frame and kept a binding
\* made inside the frame on an older term.
C17_Witness ==
    /\ ret.op = "close_frame" /\ ret.res = "Ok"
    /\ ret.freed > 0 /\ ret.kept > 0


\* The engines that have a token on thread t.
ActiveOn(a, t) == {e \in Engines : <<t, e>> \in a.tokens}

\* C18: a thread never has more than one engine active and an engine is
\* never active on more than one thread; an activation on a thread that
\* has an engine active is fatal and activates nothing; an activation of
\* an inactive engine on a thread that has none succeeds, also after the
\* thread released a token; and a token released explicitly, at the end
\* of its scope or by unwinding leaves its engine inactive and the thread
\* with no engine.
C18_OneActiveEnginePerThread ==
    [][ LET a == activation
            b == activation'
            t == b.last.thread
            e == b.last.engine
        IN  /\ \A u \in Threads :
                  /\ Cardinality(ActiveOn(b, u)) <= 1
                  /\ b.current[u] # 0 <=> ActiveOn(b, u) = {b.current[u]}
                  /\ b.current[u] = 0 <=> ActiveOn(b, u) = {}
            /\ \A f \in Engines :
                  /\ Cardinality({u \in Threads : <<u, f>> \in b.tokens}) <= 1
                  /\ b.active[f] <=> \E u \in Threads : <<u, f>> \in b.tokens
            /\ b.last.op = "activate" =>
                  /\ ActiveOn(a, t) # {} =>
                        b.last.res = "panic" /\ b.tokens = a.tokens
                  /\ (ActiveOn(a, t) = {} /\ ~a.active[e]) =>
                        b.last.res = "Ok" /\ ActiveOn(b, t) = {e}
            /\ b.last.op \in {"deactivate", "scope_end", "unwind"} =>
                  /\ <<t, e>> \in a.tokens
                  /\ ActiveOn(b, t) = {}
                  /\ ~b.active[e]
                  /\ b.current[t] = 0
      ]_vars

\* A thread that released a token activates an engine again while the
\* other engine is active on another thread.
C18_Witness ==
    /\ activation.last.op = "activate" /\ activation.last.res = "Ok"
    /\ activation.had[activation.last.thread]
    /\ Cardinality(activation.tokens) = 2


\* C19: whatever the interleaving of the calls, every call that returns
\* gives the same handle; the cell changes only from null to that handle;
\* and there are no more lookups than calls that loaded the cell before
\* the first store, and no more lookups by a thread than calls it started.
C19_RacingCallersAgree ==
    [][ /\ \A t \in Threads : lazy'.result[t] \in {Null, Handle}
        /\ lazy'.last.op = "wrap" => lazy'.result[lazy'.last.thread] = Handle
        /\ lazy'.predicate # lazy.predicate =>
              lazy.predicate = Null /\ lazy'.predicate = Handle
        /\ lazy'.lookups <= lazy'.early
        /\ \A t \in Threads : lazy'.looked[t] <= lazy'.calls[t]
      ]_vars

\* Two threads raced: both looked the predicate up, both stored it, and
\* both returned the handle.
C19_Witness ==
    /\ lazy.lookups >= 2 /\ lazy.stores >= 2
    /\ \A t \in Threads : lazy.result[t] = Handle
    /\ lazy.predicate = Handle

\* C20: a call that loads the cell after a call stored the handle goes
\* straight to the return: it looks nothing up, leaves the cell as it is,
\* and returns the handle that was stored.
C20_LookupOnlyBeforeFirstStore ==
    [][ LET t == lazy'.last.thread
        IN  /\ (lazy'.last.op = "load" /\ lazy'.last.res = "Ok" /\ lazy.stores > 0) =>
                  /\ lazy'.loaded[t] = lazy.predicate
                  /\ lazy'.pc[t] = "wrap"
            /\ (lazy'.last.op # "load" /\ lazy.late[t]) =>
                  /\ lazy'.last.op = "wrap"
                  /\ lazy'.result[t] = Handle
            /\ (lazy'.last.op = "load" \/ lazy.late[t]) =>
                  /\ lazy'.predicate = lazy.predicate
                  /\ lazy'.lookups = lazy.lookups
                  /\ lazy'.stores = lazy.stores
      ]_vars

\* A call that started after the only lookup was stored has returned.
C20_Witness ==
    /\ lazy.last.op = "wrap" /\ lazy.last.late
    /\ lazy.lookups = 1
    /\ lazy.result[lazy.last.thread] = Handle


\* C21: with an engine active, CallablePredicate::<N>::new on a predicate
\* whose arity differs from N returns WrongArity with expected N and
\* actual the predicate's arity, and it returns a wrapped predicate
\* exactly when the arity equals N.
C21_WrongArityReported ==
    (call.fn = "CallablePredicate::new" /\ call.engineActive) =>
        /\ call.arity # call.n =>
              /\ call.out.res = "WrongArity"
              /\ call.out.expected = call.n
              /\ call.out.actual = call.arity
        /\ call.out.res = "Ok" <=> call.arity = call.n


\* The term operations that reach past their guard.
TermOps == {"unify", "get", "unify_term"}

\* C22: a unify or a get on a term panics, before any engine function is
\* called and with the terms left as they were, when the engine the term
\* was made on is not the active one or is not the engine of the context;
\* a unification of two terms panics in the same way when they were made on
\* different engines.
C22_TermHandlingGuarded ==
    [][(call.fn \in TermFns /\ call'.fn \in TermOps) =>
          LET o == call.store.origin
              refused ==
                  \/ o[call'.t] # call'.current
                  \/ o[call'.t] # call'.ctxEngine
                  \/ /\ call'.fn = "unify_term"
                     /\ o[call'.arg.v[1]] # o[call'.t]
          IN  /\ refused => /\ call'.res = "panic"
                            /\ call'.calls = <<>>
                            /\ call'.store = call.store
              /\ ~refused => /\ call'.res # "panic"
                             /\ Len(call'.calls) = 1]_vars

C22_Witness ==
    /\ call.fn = "unify_term"
    /\ call.current = call.store.origin[call.t]
    /\ call.ctxEngine = call.current
    /\ call.store.origin[call.arg.v[1]] # call.current
    /\ call.res = "panic"

\* C23: a value of Rust (a bool, a u64, a text) that was unified with a
\* term is the value a get of its type reads from the term; a get of another
\* type, or a get from an unbound term, gives None.
C23_UnifyGetRoundTrip ==
    [][(call.fn \in TermFns /\ call'.fn = "get" /\ call'.res # "panic") =>
          /\ ValueOf(call.store, call'.t) = Var => call'.res = "None"
          /\ (call.fn = "unify" /\ call.res = "true" /\ call.t = call'.t) =>
                IF call'.arg.ty = call.arg.ty
                THEN call'.res = "Some" /\ call'.out = call.arg.v
                ELSE call'.res = "None"]_vars

C23_Witness ==
    /\ call.fn = "get"
    /\ call.res = "Some"
    /\ call.out = <<65535, 65535, 65535, 65535>>

\* C24: a term that was unified with a value v does not unify with another
\* value w, nor with a term bound to another value, and stays bound as it
\* was; it unifies again with v and with a term bound to the same value.
C24_BoundTermKeepsValue ==
    [][(call.fn \in TermFns /\ call'.fn \in {"unify", "unify_term"}
          /\ call'.res # "panic" /\ ValueOf(call.store, call'.t) # Var) =>
          /\ (call'.fn = "unify" /\ call.fn = "unify" /\ call.res = "true"
                /\ call.t = call'.t) =>
                /\ call'.res = "true" <=> call'.arg = call.arg
                /\ call'.store = call.store
          /\ (call'.fn = "unify_term"
                /\ ValueOf(call.store, call'.arg.v[1]) # Var) =>
                /\ call'.res = "true" <=>
                      ValueOf(call.store, call'.arg.v[1])
                          = ValueOf(call.store, call'.t)
                /\ call'.store = call.store]_vars

C24_Witness ==
    /\ call.fn = "unify_term"
    /\ call.res = "false"
    /\ ValueOf(call.store, 1).ty = "int"
    /\ ValueOf(call.store, 2).ty = "int"


\* The engine calls of an open with n arguments that opens the query qid,
\* in their order.
OpenTrace(n, qid) ==
    <<<<"PL_exception", 0>>, <<"PL_new_term_refs", n>>>>
        \o [k \in 1..n |-> <<"PL_unify", k>>]
        \o <<<<"PL_open_query", qid>>>>

\* C25: an open that passed its two asserts allocates its N slots, unifies
\* slot 1 with the first argument, slot 2 with the second and so on, then
\* opens the query, and only after that is the parent deactivated and the
\* activated query context made.  When a unification fails the open
\* panics at that argument: no query is opened, no context is made and the
\* parent is still activated.
C25_OpenStepOrder ==
    [][(ret'.op = "open"
          /\ ret'.why \notin {"not_activated", "exception_pending"}) =>
          LET tr == engine'.trace
              n == tr[2][2]
              i == ret'.ctx
              qid == Len(engine.q) + 1
          IN  IF ret'.res = "Ok"
              THEN /\ tr = OpenTrace(n, qid)
                   /\ Len(engine'.q) = qid
                   /\ Len(ctxs') = Len(ctxs) + 1
                   /\ \A k \in 1..Len(ctxs) :
                         ctxs'[k] = [ctxs[k] EXCEPT !.activated = (k # i /\ @)]
                   /\ ctxs'[Len(ctxs')] =
                         [kind |-> "query", parent |-> i, activated |-> TRUE,
                          qid |-> qid, closed |-> FALSE]
              ELSE /\ ret'.res = "panic" /\ ret'.why = "unify_failed"
                   /\ Len(tr) \in 3..(n + 2)
                   /\ tr = SubSeq(OpenTrace(n, qid), 1, Len(tr))
                   /\ engine'.q = engine.q
                   /\ ctxs' = ctxs
                   /\ ctxs[i].activated]_vars

\* The open with two arguments whose second unification fails.
C25_Witness ==
    /\ ret.op = "open" /\ ret.why = "unify_failed"
    /\ engine.trace = SubSeq(OpenTrace(2, Len(engine.q) + 1), 1, 4)
    /\ ctxs[ret.ctx].activated


\* C26: a compound term f(a1, ..., an) or a list [a1, ..., an] given to a
\* visitor of a tuple of n elements, a list given to a visitor of a
\* sequence, and a comma tuple (a1, ..., an) given to a visitor of a tuple:
\* the k-th call of next_element_seed, for k up to n, delivers ak, so that
\* after n calls a1, ..., an were delivered in this order, each once.  The
\* name of a tuple struct plays no part.
C26_ElementsInOrder ==
    (call.fn \in SeqFns /\ call.res = "visit_seq"
        /\ call.len = Len(ElementsOf(call.term))) =>
        LET es == ElementsOf(call.term)
        IN  /\ call.calls <= Len(es) =>
                  call.delivered = SubSeq(es, 1, call.calls)
            /\ call.calls >= Len(es) =>
                  SubSeq(call.delivered, 1, Len(es)) = es

\* The tuple struct named h filled from g(a, b, c).
C26_Witness ==
    /\ call.fn = "next_element_seed"
    /\ call.name = "h"
    /\ call.term = [f |-> "g", args |-> <<AtomTerm("a"), AtomTerm("b"), AtomTerm("c")>>]
    /\ call.calls = 3
    /\ call.delivered = call.term.args

\* C28: the call of next_element_seed that follows the delivery of the n
\* elements of a comma tuple returns the end of the sequence.
C28_CommaTupleEnds ==
    (call.fn = "next_element_seed" /\ call.access.kind = "comma"
        /\ call.calls > Len(ElementsOf(call.term))) =>
        /\ call.last = "None"
        /\ call.delivered = ElementsOf(call.term)


\* C27: a narrowing integer deserializer, on a term or on a dictionary
\* key, gives the visitor the source integer itself when that integer lies
\* within the range of the target type; it returns ValueOutOfRange for an
\* integer outside the range and ValueNotOfExpectedType for a source that is
\* no integer.
C27_NarrowingKeepsValue ==
    call.fn \in IntFns =>
        IF call.src.ty # "int" THEN call.res = "ValueNotOfExpectedType"
        ELSE IF InRange(call.ty, call.src)
        THEN call.res = "visit" /\ IntegerOf(call.out) = call.src
        ELSE call.res = "ValueOutOfRange"


\* Whether a key was taken since the last value was delivered, in the
\* history h.
RECURSIVE KeyPending(_)
KeyPending(h) ==
    IF h = <<>> THEN FALSE
    ELSE LET e == h[Len(h)]
         IN  IF e = "K" THEN TRUE
             ELSE IF e = "V" THEN FALSE
             ELSE KeyPending(SubSeq(h, 1, Len(h) - 1))

\* C29: next_value_seed delivers the value of the entry whose key
\* next_key_seed took last, delivers the value of an entry once at most, and
\* panics exactly when no key was taken since the last delivered value (or
\* since the start): before any key, twice in a row, after the end of the
\* dictionary.
C29_ValueFollowsItsKey ==
    call.fn = "next_value_seed" =>
        LET before == SubSeq(call.hist, 1, Len(call.hist) - 1)
        IN  /\ call.res = "panic" <=> ~KeyPending(before)
            /\ call.res = "Ok" =>
                  /\ call.m.taken \in 1..Len(call.m.dict)
                  /\ call.out = <<call.m.dict[call.m.taken][2]>>
            /\ \A i, j \in 1..Len(call.given) :
                  i # j => call.given[i] # call.given[j]

\* The second value of a dictionary, delivered after its key.
C29_Witness ==
    /\ call.fn = "next_value_seed"
    /\ call.res = "Ok"
    /\ call.hist = <<"K", "V", "K", "V">>
    /\ call.out = <<"v2">>


\* C30: on every thread the flag is set exactly while an Atom::deserialize
\* is in progress there: a start sets it, a start that finds it set panics,
\* and it is unset once the call has ended, by a value, an error or a
\* panic; the visitor accepts a pointer only on a thread whose flag is set.
C30_FlagOnlyDuringDeserialize ==
    call.fn \in AtomFns =>
        /\ \A t \in Threads : call.flag[t] <=> call.frames[t] > 0
        /\ \A t \in Threads : call.frames[t] <= 1
        /\ call.fn = "Atom::deserialize" =>
              (call.res = "panic" <=> call.flagAt)
        /\ (call.fn = "Atom::deserialize" /\ call.res = "Ok") =>
              call.flag[call.thread]
        /\ call.fn = "return" => ~call.flag[call.thread]
        /\ (call.fn \in {"visit_u64", "deserialize_newtype_struct"}
              /\ call.res = "Ok") => call.flagAt

\* A second Atom::deserialize on a thread whose flag was set: it panicked,
\* and the flag is unset after the unwinding, while the other thread is in
\* the middle of its own call.
C30_Witness ==
    /\ call.fn = "Atom::deserialize"
    /\ call.res = "panic"
    /\ call.flagAt
    /\ ~call.flag[call.thread]
    /\ \E t \in Threads : call.flag[t]

====
